---- MODULE Spec2Model ----
(***************************************************************************)
(* A model of the reporting dashboard of harry1tap/valour-holdings:        *)
(*   - the date range resolver (services/dateService.ts),                  *)
(*   - the Solar and ECO4 source adapters (services/solarService.ts,       *)
(*     services/eco4Service.ts) with their access policy,                  *)
(*   - the data views' load effects (components/*.tsx).                    *)
(* Each part has its own specification; the variables of the other parts   *)
(* stay at their idle values.                                              *)
(***************************************************************************)
EXTENDS Integers, Sequences, FiniteSets, Bags, TLC

VARIABLES
    \* ---- date range resolver ----
    now,          \* the instant `new Date()` returns
    period,       \* the period getDateRange was last called with ("none" before)
    customStart,  \* its customStart argument
    customEnd,    \* its customEnd argument
    range,        \* the {start, end} it returned (NoRange before)
    \* ---- source adapters ----
    solarStore,   \* the rows of solar.solar_leads
    eco4Store,    \* the rows of ECO4_Leads
    expenseStore, \* the rows of finances.expenses
    call,         \* the adapter operation last called, with its arguments
    result,       \* what it returned, and the store queries it issued
    \* ---- data views ----
    view,         \* the mounted view: its React state
    loads,        \* the bag of the loads it issued that have not settled
    \* ---- application shell ----
    app,          \* the React state of App
    auth,         \* the auth collaborator: its session and its pending calls
    lookups,      \* the bag of the fetchUserProfile calls that have not settled
    provider,     \* the state of BusinessProvider, its effect pending or not
    storage       \* localStorage: the value under 'active_business'

dateVars == <<now, period, customStart, customEnd, range>>

adapterVars == <<solarStore, eco4Store, expenseStore, call, result>>

viewVars == <<view, loads>>

appVars == <<app, auth, lookups, provider, storage>>

vars == <<now, period, customStart, customEnd, range,
          solarStore, eco4Store, expenseStore, call, result, view, loads,
          app, auth, lookups, provider, storage>>

(***************************************************************************)
(* Bounds of the model.                                                    *)
(***************************************************************************)
\* the current date ranges over the years 2023 .. 2023 + YearSpan
YearSpan == 1

\* a store holds at most MaxRows rows (the scenario stores apart)
MaxRows == 2

NULL == "null"

(***************************************************************************)
(* JavaScript Date, local time.  A Date is [y, m, d, ms]: the year, the    *)
(* month index 0..11, the day of the month and the millisecond of the day. *)
(***************************************************************************)
\* setHours(23, 59, 59, 999) as the millisecond of the day
EndOfDayMs == 86399999

IsLeap(y) == (y % 4 = 0 /\ y % 100 # 0) \/ y % 400 = 0

DaysInMonth(y, m) ==
    IF m = 1 THEN (IF IsLeap(y) THEN 29 ELSE 28)
    ELSE IF m \in {3, 5, 8, 10} THEN 30 ELSE 31

\* The Date constructor's and the setters' normalisation of a day that is
\* outside the month: day 0 is the last day of the month before, day
\* DaysInMonth + k is day k of the month after.
RECURSIVE NormDay(_, _, _, _)
NormDay(y, m, d, ms) ==
    IF d < 1
      THEN LET py == IF m = 0 THEN y - 1 ELSE y
               pm == IF m = 0 THEN 11 ELSE m - 1
           IN  NormDay(py, pm, d + DaysInMonth(py, pm), ms)
    ELSE IF d > DaysInMonth(y, m)
      THEN LET ny == IF m = 11 THEN y + 1 ELSE y
               nm == IF m = 11 THEN 0 ELSE m + 1
           IN  NormDay(ny, nm, d - DaysInMonth(y, m), ms)
    ELSE [y |-> y, m |-> m, d |-> d, ms |-> ms]

\* new Date(y, m, d) with the time of day ms: a month index outside 0..11
\* carries into the year, then the day is normalised.
MkDate(y, m, d, ms) == NormDay(y + (m \div 12), m % 12, d, ms)

\* Date.prototype.setMonth(m): keeps the day of the month, then normalises.
setMonth(date, m) == MkDate(date.y, m, date.d, date.ms)

\* Date.prototype.setMonth(m, d)
setMonthDay(date, m, d) == MkDate(date.y, m, d, date.ms)

\* Date.prototype.setDate(d)
setDate(date, d) == MkDate(date.y, date.m, d, date.ms)

\* Date.prototype.setHours(h, min, s, ms), as the millisecond of the day
setHours(date, ms) == [date EXCEPT !.ms = ms]

\* a <= b on Dates (the order of the instants they denote)
DateLE(a, b) ==
    \/ a.y < b.y
    \/ a.y = b.y /\ a.m < b.m
    \/ a.y = b.y /\ a.m = b.m /\ a.d < b.d
    \/ a.y = b.y /\ a.m = b.m /\ a.d = b.d /\ a.ms <= b.ms

(***************************************************************************)
(* services/dateService.ts                                                 *)
(***************************************************************************)
PeriodFilter ==
    {"this_month", "last_month", "this_quarter", "this_year", "last_year",
     "all_time", "custom"}

\* A 'YYYY-MM-DD' string is modelled by the numbers split('-').map(Number)
\* reads from it, [y, m, d] with m in 1..12; the empty string is NoDate.
NoDate == [y |-> 0, m |-> 0, d |-> 0]

\* customStart.split('-').map(Number); new Date(y, m - 1, d)
ParseLocalDate(s, ms) == MkDate(s.y, s.m - 1, s.d, ms)

getDateRange(nowD, p, cs, ce) ==
    LET start0 == setHours(nowD, 0)
        end0   == setHours(nowD, EndOfDayMs)
    IN  CASE p = "this_month" ->
               [start |-> setDate(start0, 1), end |-> end0]
          [] p = "last_month" ->
               [start |-> setDate(setMonth(start0, start0.m - 1), 1),
                end   |-> MkDate(nowD.y, nowD.m, 0, EndOfDayMs)]
          [] p = "this_quarter" ->
               [start |-> setDate(setMonth(start0, (start0.m \div 3) * 3), 1),
                end   |-> end0]
          [] p = "this_year" ->
               [start |-> setMonthDay(start0, 0, 1), end |-> end0]
          [] p = "last_year" ->
               [start |-> MkDate(nowD.y - 1, 0, 1, 0),
                end   |-> MkDate(nowD.y - 1, 11, 31, EndOfDayMs)]
          [] p = "all_time" ->
               [start |-> MkDate(2020, 0, 1, 0), end |-> end0]
          [] p = "custom" ->
               [start |-> IF cs # NoDate THEN ParseLocalDate(cs, 0) ELSE start0,
                end   |-> IF ce # NoDate THEN ParseLocalDate(ce, EndOfDayMs)
                          ELSE end0]
          [] OTHER -> [start |-> start0, end |-> end0]

(***************************************************************************)
(* The date specification: the clock shows any day of the modelled years   *)
(* and getDateRange is called with any period.                             *)
(***************************************************************************)
Years == 2023 .. (2023 + YearSpan)

\* the time of day of `new Date()`: midnight, noon, the last millisecond
TimesOfDay == {0, 43200000, EndOfDayMs}

Clock ==
    {[y |-> y, m |-> m, d |-> d, ms |-> t] :
        y \in Years, m \in 0..11, d \in 1..31, t \in TimesOfDay}

Instants == {c \in Clock : c.d <= DaysInMonth(c.y, c.m)}

\* the custom dates the date inputs are filled with
CustomDates ==
    {NoDate, [y |-> 2020, m |-> 3, d |-> 1], [y |-> 2024, m |-> 1, d |-> 31]}

\* the value of `range` before the first call
NoInstant == [y |-> 0, m |-> 0, d |-> 0, ms |-> 0]

NoRange == [start |-> NoInstant, end |-> NoInstant]

\* no view is mounted
NoView ==
    [kind |-> "none", business |-> "solar", period |-> "this_year",
     customStart |-> NoDate, customEnd |-> NoDate, dateRange |-> NoRange,
     loading |-> FALSE, shown |-> [s \in {} |-> NoRange], logged |-> FALSE]

CallGetDateRange ==
    \E p \in PeriodFilter, cs \in CustomDates, ce \in CustomDates :
        /\ p # "custom" => cs = NoDate /\ ce = NoDate
        /\ period' = p
        /\ customStart' = cs
        /\ customEnd' = ce
        /\ range' = getDateRange(now, p, cs, ce)
        /\ UNCHANGED now
        /\ UNCHANGED appVars
        /\ UNCHANGED adapterVars
        /\ UNCHANGED viewVars

NextDate == CallGetDateRange

(***************************************************************************)
(* The stores.  A date column holds a Date or NoInstant (SQL NULL); a text *)
(* column holds a string or NULL; a money column holds a Money value.      *)
(* Amounts are in pence, so that 1234.5 is 123450.                         *)
(***************************************************************************)
Num(n) == [t |-> "num", n |-> n]

NullMoney == [t |-> "null", n |-> 0]

Str(s) == [t |-> "str", n |-> 0, s |-> s]

Digits == <<"0", "1", "2", "3", "4", "5", "6", "7", "8", "9">>

\* a <= col <= b as the store evaluates .gte(col, a).lte(col, b): NULL never
\* matches.  toISOString() denotes the same instant, so the order is DateLE.
InRange(col, startDate, endDate) ==
    /\ col # NoInstant
    /\ DateLE(startDate, col)
    /\ DateLE(col, endDate)

\* .eq(col, value): NULL never matches
Eq(col, value) == col # NULL /\ col = value

\* JavaScript truthiness of a string | null | undefined
Truthy(str) == str # NULL /\ str # ""

\* Array.prototype.filter(...).length
Count(rows, Test(_)) == Len(SelectSeq(rows, Test))

RECURSIVE NatToString(_)
\* the decimal digits of a natural number
NatToString(n) ==
    IF n < 10 THEN <<Digits[n + 1]>>
    ELSE NatToString(n \div 10) \o <<Digits[(n % 10) + 1]>>

\* String(x) of a non-negative amount held in pence: 50000 is "500" and
\* 123450 is "1234.5"
NumberToString(n) ==
    NatToString(n \div 100)
        \o (IF n % 100 = 0 THEN <<>>
            ELSE IF n % 10 = 0 THEN <<".", Digits[((n % 100) \div 10) + 1]>>
            ELSE <<".", Digits[((n % 100) \div 10) + 1], Digits[(n % 10) + 1]>>)

\* val || 0
OrZero(val) ==
    IF val.t = "null" \/ (val.t = "num" /\ val.n = 0)
                      \/ (val.t = "str" /\ val.s = <<>>)
    THEN Num(0) ELSE val

\* a + b of JavaScript on numbers and strings: two numbers add, and with a
\* string operand both are turned into strings and concatenated
JsPlus(a, b) ==
    LET StringOf(v) == IF v.t = "str" THEN v.s ELSE NumberToString(v.n)
    IN  IF a.t = "num" /\ b.t = "num" THEN Num(a.n + b.n)
        ELSE Str(StringOf(a) \o StringOf(b))

RECURSIVE RevenueFrom(_, _, _)
RevenueFrom(rows, i, sum) ==
    IF i > Len(rows) THEN sum
    ELSE RevenueFrom(rows, i + 1, JsPlus(sum, OrZero(rows[i].Lead_Revenue)))

\* rows[i ..].reduce((sum, l) => sum + (l.Lead_Revenue || 0), 0) || 0
SumRevenue(rows, i) == OrZero(RevenueFrom(rows, i, Num(0)))

UserProfile(role, name) == [role |-> role, name |-> name]

NoQueries == [solar |-> 0, eco4 |-> 0]

\* { leadsCount: 0, surveysCount: 0, installsCount: 0, paidCount: 0, revenue: 0 }
ZeroKpis ==
    [leadsCount |-> 0, surveysCount |-> 0, installsCount |-> 0,
     paidCount |-> 0, revenue |-> Num(0)]

\* what an adapter operation hands back: the list or the bundle it returns,
\* whether it threw instead, and the queries it sent to each store
Returned(leads, kpis, threw, queries) ==
    [leads |-> leads, kpis |-> kpis, threw |-> threw, queries |-> queries]

(***************************************************************************)
(* services/solarService.ts (the later revision, lines 573-1170)           *)
(***************************************************************************)
\* The authorization logic of the earlier revision of fetchLeads
\* (solarService.ts:47-54), which has no account_manager branch.
solar_leadsScope_rev1(user, selectedRepFilter, row) ==
    IF user.role = "field_rep" THEN Eq(row.Field_Rep, user.name)
    ELSE IF user.role = "admin" /\ Truthy(selectedRepFilter)
      THEN Eq(row.Field_Rep, selectedRepFilter)
    ELSE TRUE

\* fetchLeads with the override honoured for every role
solar_leadsScope_override(user, selectedRepFilter, row) ==
    IF Truthy(selectedRepFilter) THEN Eq(row.Field_Rep, selectedRepFilter)
    ELSE IF user.role = "field_rep" THEN Eq(row.Field_Rep, user.name)
    ELSE IF user.role = "account_manager"
      THEN Eq(row.Account_Manager, user.name)
    ELSE TRUE

\* fetchLeads, "Authorization Logic": the equality filter the role adds
solar_leadsScope(user, selectedRepFilter, row) ==
    IF user.role = "field_rep" THEN Eq(row.Field_Rep, user.name)
    ELSE IF user.role = "account_manager"
      THEN Eq(row.Account_Manager, user.name)
    ELSE IF user.role = "admin" /\ Truthy(selectedRepFilter)
      THEN Eq(row.Field_Rep, selectedRepFilter)
    ELSE TRUE

solar_fetchLeads(store, user, startDate, endDate, selectedRepFilter, storeFails) ==
    IF user.role = "account_manager" /\ ~Truthy(user.name)
      THEN Returned(<<>>, ZeroKpis, FALSE, NoQueries)
    ELSE IF storeFails
      THEN Returned(<<>>, ZeroKpis, TRUE, [solar |-> 1, eco4 |-> 0])
    ELSE LET Match(row) ==
                 /\ InRange(row.Created_At, startDate, endDate)
                 /\ solar_leadsScope(user, selectedRepFilter, row)
         IN  Returned(SelectSeq(store, Match), ZeroKpis, FALSE,
                      [solar |-> 1, eco4 |-> 0])

\* fetchKPIMetrics: the equality filter the role adds
solar_kpiScope(user, selectedRepFilter, row) ==
    IF user.role = "field_rep" THEN Eq(row.Field_Rep, user.name)
    ELSE IF user.role = "admin" /\ Truthy(selectedRepFilter)
      THEN Eq(row.Field_Rep, selectedRepFilter)
    ELSE TRUE

\* fetchKPIMetrics as the earlier revision computes it (solarService.ts:
\* 65-131): five queries, each count by the date of its own event
solar_fetchKPIMetrics_rev1(store, user, startDate, endDate, selectedRepFilter, storeFails) ==
    IF storeFails
      THEN Returned(<<>>, ZeroKpis, FALSE, [solar |-> 5, eco4 |-> 0])
    ELSE LET Scoped(row) == solar_kpiScope(user, selectedRepFilter, row)
             Paid(row) ==
                 /\ Scoped(row)
                 /\ Eq(row.Status, "Paid")
                 /\ InRange(row.Paid_Date, startDate, endDate)
         IN  Returned(<<>>,
                 [leadsCount    |-> Count(store, LAMBDA r :
                      Scoped(r) /\ InRange(r.Created_At, startDate, endDate)),
                  surveysCount  |-> Count(store, LAMBDA r :
                      Scoped(r) /\ InRange(r.Survey_Booked_Date, startDate, endDate)),
                  installsCount |-> Count(store, LAMBDA r :
                      Scoped(r) /\ InRange(r.Install_Booked_Date, startDate, endDate)),
                  paidCount     |-> Count(store, Paid),
                  revenue       |-> SumRevenue(SelectSeq(store, Paid), 1)],
                 FALSE, [solar |-> 5, eco4 |-> 0])

\* fetchKPIMetrics, "Calculate specific metrics in-memory": `leads` are the
\* rows the cohort query returned
solar_kpiOf(leads) ==
    LET paid == SelectSeq(leads, LAMBDA l : l.Status = "Paid")
    IN  [leadsCount    |-> Len(leads),
         surveysCount  |-> Count(leads, LAMBDA l : l.Survey_Booked_Date # NoInstant),
         installsCount |-> Count(leads, LAMBDA l : l.Install_Booked_Date # NoInstant),
         paidCount     |-> Len(paid),
         revenue       |-> SumRevenue(paid, 1)]

solar_fetchKPIMetrics(store, user, startDate, endDate, selectedRepFilter, storeFails) ==
    IF storeFails
      THEN Returned(<<>>, ZeroKpis, FALSE, [solar |-> 1, eco4 |-> 0])
    ELSE LET Match(row) ==
                 /\ InRange(row.Created_At, startDate, endDate)
                 /\ solar_kpiScope(user, selectedRepFilter, row)
         IN  Returned(<<>>, solar_kpiOf(SelectSeq(store, Match)),
                      FALSE, [solar |-> 1, eco4 |-> 0])

(***************************************************************************)
(* services/eco4Service.ts                                                 *)
(***************************************************************************)
\* A string is a sequence of characters; "pound" stands for the pound sign
\* and "A^" for the letter A with circumflex of the source's character class.
IsDigit(c) == \E i \in 1..10 : Digits[i] = c

DigitVal(c) == (CHOOSE i \in 1..10 : Digits[i] = c) - 1

NaN == [t |-> "nan", n |-> 0]

RECURSIVE LeadingDigits(_, _)
\* the length of the run of digits of s that starts at position i
LeadingDigits(s, i) ==
    IF i <= Len(s) /\ IsDigit(s[i]) THEN 1 + LeadingDigits(s, i + 1) ELSE 0

RECURSIVE DigitsValue(_, _, _)
\* the number the digits s[i .. j] spell
DigitsValue(s, i, j) ==
    IF j < i THEN 0 ELSE DigitsValue(s, i, j - 1) * 10 + DigitVal(s[j])

\* parseFloat on an unsigned decimal string, in pence: the longest numeric
\* prefix, NaN when there is none.  Fraction digits past the second are
\* dropped (no modelled amount has them).
parseFloat(s) ==
    LET k    == LeadingDigits(s, 1)
        frac == IF k + 1 <= Len(s) /\ s[k + 1] = "."
                THEN LeadingDigits(s, k + 2) ELSE 0
        f1   == IF frac >= 1 THEN DigitVal(s[k + 2]) ELSE 0
        f2   == IF frac >= 2 THEN DigitVal(s[k + 3]) ELSE 0
    IN  IF k = 0 /\ frac = 0 THEN NaN
        ELSE Num(DigitsValue(s, 1, k) * 100 + f1 * 10 + f2)

\* val.toString().replace(/[A^ pound ,]/g, '')
StripCurrency(s) == SelectSeq(s, LAMBDA c : c \notin {"A^", "pound", ","})

parseCurrency(val) ==
    IF val.t = "num" THEN val
    ELSE IF val.t = "null" \/ val.s = <<>> THEN Num(0)
    ELSE LET stripped == StripCurrency(val.s)
         IN  parseFloat(IF stripped = <<>> THEN <<"0">> ELSE stripped)

\* sum + x on numbers: NaN absorbs
Plus(a, b) == IF a.t = "nan" \/ b.t = "nan" THEN NaN ELSE Num(a.n + b.n)

RECURSIVE SumCurrency(_, _)
\* rows.reduce((sum, row) => sum + parseCurrency(row.Payment_Total_Net), 0)
SumCurrency(rows, i) ==
    IF i = 0 THEN Num(0)
    ELSE Plus(SumCurrency(rows, i - 1), parseCurrency(rows[i].Payment_Total_Net))

\* const batchSize = 1000
batchSize == 1000

\* if (from > 100000) break
SafetyCap == 100000

RECURSIVE fetchAllPagesFrom(_, _, _, _, _)
\* the loop of fetchAllPages: `matching` are the rows the query selects,
\* in store order; returns the rows accumulated and the pages requested
fetchAllPagesFrom(matching, from, allData, pages, storeFails) ==
    LET last == IF from + batchSize < Len(matching)
                THEN from + batchSize ELSE Len(matching)
        data == SubSeq(matching, from + 1, last)
    IN  IF storeFails THEN [rows |-> allData, pages |-> pages + 1]
        ELSE IF Len(data) = 0 THEN [rows |-> allData, pages |-> pages + 1]
        ELSE IF Len(data) < batchSize
          THEN [rows |-> allData \o data, pages |-> pages + 1]
        ELSE IF from + batchSize > SafetyCap
          THEN [rows |-> allData \o data, pages |-> pages + 1]
        ELSE fetchAllPagesFrom(matching, from + batchSize, allData \o data,
                               pages + 1, storeFails)

\* the filter a range query puts on dateColumn: the range, or for all time
\* "not null" on every column but Lead_Created_Date
eco4_dateFilter(row, dateColumn, startDate, endDate, isAllTime) ==
    IF ~isAllTime THEN InRange(row[dateColumn], startDate, endDate)
    ELSE IF dateColumn # "Lead_Created_Date" THEN row[dateColumn] # NoInstant
    ELSE TRUE

fetchAllPages(store, dateColumn, startDate, endDate, isAllTime, ExtraFilter(_), storeFails) ==
    LET Match(row) ==
            /\ eco4_dateFilter(row, dateColumn, startDate, endDate, isAllTime)
            /\ ExtraFilter(row)
    IN  fetchAllPagesFrom(SelectSeq(store, Match), 0, <<>>, 0, storeFails)

\* const isAllTime = startDate.getFullYear() === 2020
eco4_isAllTime(startDate) == startDate.y = 2020

\* a row that carries no id: `row.id ||` takes a missing, null or 0 id alike
NoId == 0

\* what Math.floor(Math.random() * 1000000) may give
Drawn == {0, 1, 999999}

\* the draws of one call, one for each row read: every outcome where a row
\* carries no id, and nothing to draw where every row carries one
Draws(store) ==
    IF \A i \in 1..Len(store) : store[i].id # NoId
    THEN {[i \in 1..Len(store) |-> 0]}
    ELSE [1..Len(store) -> Drawn]

\* the draws over a store whose rows all carry an id
NoDraws(store) == [i \in 1..Len(store) |-> 0]

mapECO4ToLead(row, random) ==
    [id                  |-> IF row.id # NoId THEN row.id ELSE random,
     Created_At          |-> IF row.Lead_Created_Date # NoInstant
                             THEN row.Lead_Created_Date
                             ELSE row.Valour_Paid_Date,
     Field_Rep           |-> NULL,
     Account_Manager     |-> NULL,
     Status              |-> IF Truthy(row.Overall_Status)
                             THEN row.Overall_Status ELSE "Pending",
     Survey_Booked_Date  |-> row.Survey_Date,
     Install_Booked_Date |-> row.Install_Date,
     Paid_Date           |-> row.Valour_Paid_Date,
     Lead_Revenue        |-> parseCurrency(row.Payment_Total_Net)]

RECURSIVE InsertByCreatedDesc(_, _)
\* sorted, most recent Lead_Created_Date first (NULL sorts first, equal dates
\* keep the store's order), with row put in its place
InsertByCreatedDesc(sorted, row) ==
    IF sorted = <<>> THEN <<row>>
    ELSE IF \/ Head(sorted).Lead_Created_Date = NoInstant
            \/ /\ row.Lead_Created_Date # NoInstant
               /\ DateLE(row.Lead_Created_Date, Head(sorted).Lead_Created_Date)
      THEN <<Head(sorted)>> \o InsertByCreatedDesc(Tail(sorted), row)
    ELSE <<row>> \o sorted

RECURSIVE OrderByCreatedDesc(_, _)
\* .order('Lead_Created_Date', { ascending: false }) on rows[1 .. n]
OrderByCreatedDesc(rows, n) ==
    IF n = 0 THEN <<>>
    ELSE InsertByCreatedDesc(OrderByCreatedDesc(rows, n - 1), rows[n])

\* [f(rows[1]), ..., f(rows[n])]: Array.prototype.map
Map(rows, F(_)) == [i \in 1..Len(rows) |-> F(rows[i])]

\* fetchLeads past its role check: the query, its first 1000 rows, mapped
eco4_queryLeads(store, startDate, endDate, storeFails, random) ==
    IF storeFails
      THEN Returned(<<>>, ZeroKpis, TRUE, [solar |-> 0, eco4 |-> 1])
    ELSE LET isAllTime == eco4_isAllTime(startDate)
             Match(row) ==
                 isAllTime \/ InRange(row.Lead_Created_Date, startDate, endDate)
             rows    == SelectSeq(store, Match)
             ordered == OrderByCreatedDesc(rows, Len(rows))
             page    == SubSeq(ordered, 1,
                               IF Len(ordered) < 1000 THEN Len(ordered) ELSE 1000)
         IN  Returned([i \in 1..Len(page) |->
                          mapECO4ToLead(page[i], random[i])], ZeroKpis, FALSE,
                      [solar |-> 0, eco4 |-> 1])

\* the role check denying only field reps
eco4_denied_fieldRepOnly(user) == user.role = "field_rep"

\* if (user.role !== 'admin') return ...
eco4_denied(user) == user.role # "admin"

eco4_fetchLeads(store, user, startDate, endDate, selectedRepFilter, storeFails, random) ==
    IF eco4_denied(user)
      THEN Returned(<<>>, ZeroKpis, FALSE, NoQueries)
    ELSE eco4_queryLeads(store, startDate, endDate, storeFails, random)

\* the four count queries and the paged revenue read of fetchKPIMetrics
eco4_kpiQueries(store, startDate, endDate, storeFails) ==
    LET isAllTime == eco4_isAllTime(startDate)
        IsPaid(row) == Eq(row.Overall_Status, "PAID")
        CountBy(dateColumn, Extra(_)) ==
            IF storeFails THEN 0
            ELSE Count(store, LAMBDA row :
                     /\ eco4_dateFilter(row, dateColumn, startDate, endDate, isAllTime)
                     /\ Extra(row))
        revenueRes == fetchAllPages(store, "Valour_Paid_Date", startDate, endDate,
                                    isAllTime, IsPaid, storeFails)
    IN  Returned(<<>>,
            [leadsCount    |-> CountBy("Lead_Created_Date", LAMBDA row : TRUE),
             surveysCount  |-> CountBy("Survey_Date", LAMBDA row : TRUE),
             installsCount |-> CountBy("Install_Date", LAMBDA row : TRUE),
             paidCount     |-> CountBy("Valour_Paid_Date", IsPaid),
             revenue       |-> SumCurrency(revenueRes.rows, Len(revenueRes.rows))],
            FALSE, [solar |-> 0, eco4 |-> 4 + revenueRes.pages])

eco4_fetchKPIMetrics(store, user, startDate, endDate, selectedRepFilter, storeFails) ==
    IF eco4_denied(user)
      THEN Returned(<<>>, ZeroKpis, FALSE, NoQueries)
    ELSE eco4_kpiQueries(store, startDate, endDate, storeFails)

(***************************************************************************)
(* The adapter specification: the stores hold any rows of a small domain   *)
(* (or the January/February scenario), and any user calls any operation    *)
(* with any range and name filter; a store query may fail.                 *)
(***************************************************************************)
Day(y, m, d) == [y |-> y, m |-> m, d |-> d, ms |-> 0]

Users ==
    {UserProfile("admin", "Root"),
     UserProfile("field_rep", "Alice"),
     UserProfile("account_manager", "Carol"),
     UserProfile("account_manager", "")}

RepFilters == {NULL, "", "Bob"}

\* the clock of the adapter calls
AdapterNow == [y |-> 2024, m |-> 5, d |-> 15, ms |-> 43200000]

JanRange ==
    getDateRange(AdapterNow, "custom", [y |-> 2024, m |-> 1, d |-> 1],
                 [y |-> 2024, m |-> 1, d |-> 31])

FebRange ==
    getDateRange(AdapterNow, "custom", [y |-> 2024, m |-> 2, d |-> 1],
                 [y |-> 2024, m |-> 2, d |-> 29])

AllTimeRange == getDateRange(AdapterNow, "all_time", NoDate, NoDate)

AdapterRanges == {JanRange, FebRange, AllTimeRange}

\* who a Solar row is assigned to
SolarOwners ==
    <<[Field_Rep |-> "Alice", Account_Manager |-> "Carol"],
      [Field_Rep |-> "Bob",   Account_Manager |-> "Carol"],
      [Field_Rep |-> "Alice", Account_Manager |-> "Dave"],
      [Field_Rep |-> NULL,    Account_Manager |-> NULL]>>

\* how far a Solar row has come in the funnel
SolarStages ==
    <<[Status |-> "New", Survey_Booked_Date |-> NoInstant,
       Install_Booked_Date |-> NoInstant, Paid_Date |-> NoInstant,
       Lead_Revenue |-> NullMoney],
      [Status |-> "Survey Booked", Survey_Booked_Date |-> Day(2024, 1, 20),
       Install_Booked_Date |-> NoInstant, Paid_Date |-> NoInstant,
       Lead_Revenue |-> NullMoney],
      [Status |-> "Paid", Survey_Booked_Date |-> Day(2024, 0, 20),
       Install_Booked_Date |-> Day(2024, 1, 1), Paid_Date |-> Day(2024, 1, 25),
       Lead_Revenue |-> Num(50000)]>>

CreatedDates == <<Day(2024, 0, 15), Day(2024, 1, 15)>>

SolarRow(id, created, owner, stage) ==
    [id                  |-> id,
     Created_At          |-> created,
     Field_Rep           |-> owner.Field_Rep,
     Account_Manager     |-> owner.Account_Manager,
     Status              |-> stage.Status,
     Survey_Booked_Date  |-> stage.Survey_Booked_Date,
     Install_Booked_Date |-> stage.Install_Booked_Date,
     Paid_Date           |-> stage.Paid_Date,
     Lead_Revenue        |-> stage.Lead_Revenue]

\* the k-th row of the Solar row domain, k in 0 .. 23, with the given id
SolarRowNo(k, id) ==
    SolarRow(id, CreatedDates[(k % 2) + 1], SolarOwners[((k \div 2) % 4) + 1],
             SolarStages[(k \div 8) + 1])

\* the non-decreasing sequences over 0 .. n - 1 of length at most k: one per
\* bag of at most k rows
Bags(n, k) ==
    UNION {{s \in [1..len -> 0..(n - 1)] :
               \A i \in 1..(len - 1) : s[i] <= s[i + 1]} : len \in 0..k}

SolarStores ==
    {[i \in 1..Len(s) |-> SolarRowNo(s[i], i)] : s \in Bags(24, MaxRows)}

\* 10 leads created in January, 4 of them with a survey booked in January and
\* 2 with one in February, 3 of them Paid with a paid date in February
SolarScenario ==
    [i \in 1..10 |->
        [id                  |-> i,
         Created_At          |-> Day(2024, 0, i + 1),
         Field_Rep           |-> "Alice",
         Account_Manager     |-> "Carol",
         Status              |-> IF i <= 3 THEN "Paid" ELSE "New",
         Survey_Booked_Date  |-> IF i <= 4 THEN Day(2024, 0, 20)
                                 ELSE IF i <= 6 THEN Day(2024, 1, 5)
                                 ELSE NoInstant,
         Install_Booked_Date |-> NoInstant,
         Paid_Date           |-> IF i <= 3 THEN Day(2024, 1, 10) ELSE NoInstant,
         Lead_Revenue        |-> IF i <= 3 THEN Num(100000) ELSE NullMoney]]

\* how far an ECO4 row has come in the funnel
Eco4Stages ==
    <<[Overall_Status |-> NULL, Survey_Date |-> NoInstant,
       Install_Date |-> NoInstant, Valour_Paid_Date |-> NoInstant,
       Payment_Total_Net |-> NullMoney],
      [Overall_Status |-> "SURVEYED", Survey_Date |-> Day(2024, 0, 20),
       Install_Date |-> NoInstant, Valour_Paid_Date |-> NoInstant,
       Payment_Total_Net |-> NullMoney],
      [Overall_Status |-> "INSTALLED", Survey_Date |-> Day(2024, 1, 5),
       Install_Date |-> Day(2024, 1, 12), Valour_Paid_Date |-> NoInstant,
       Payment_Total_Net |-> Str(<<>>)],
      [Overall_Status |-> "PAID", Survey_Date |-> Day(2024, 0, 20),
       Install_Date |-> Day(2024, 1, 1), Valour_Paid_Date |-> Day(2024, 1, 25),
       Payment_Total_Net |-> Num(50000)],
      [Overall_Status |-> "PAID", Survey_Date |-> NoInstant,
       Install_Date |-> NoInstant, Valour_Paid_Date |-> Day(2024, 1, 25),
       Payment_Total_Net |->
           Str(<<"pound", "1", ",", "2", "3", "4", ".", "5", "0">>)]>>

Eco4Row(id, created, stage) ==
    [id                |-> id,
     Lead_Created_Date |-> created,
     Overall_Status    |-> stage.Overall_Status,
     Survey_Date       |-> stage.Survey_Date,
     Install_Date      |-> stage.Install_Date,
     Valour_Paid_Date  |-> stage.Valour_Paid_Date,
     Payment_Total_Net |-> stage.Payment_Total_Net]

\* the k-th row of the ECO4 row domain, k in 0 .. 9, with the given id
Eco4RowNo(k, id) ==
    Eco4Row(id, CreatedDates[(k % 2) + 1], Eco4Stages[(k \div 2) + 1])

Eco4Stores ==
    {[i \in 1..Len(s) |-> Eco4RowNo(s[i], i)] : s \in Bags(10, MaxRows)}

\* the same scenario in the columns of ECO4_Leads
Eco4Scenario ==
    [i \in 1..10 |->
        [id                |-> i,
         Lead_Created_Date |-> Day(2024, 0, i + 1),
         Overall_Status    |-> IF i <= 3 THEN "PAID" ELSE NULL,
         Survey_Date       |-> IF i <= 4 THEN Day(2024, 0, 20)
                               ELSE IF i <= 6 THEN Day(2024, 1, 5)
                               ELSE NoInstant,
         Install_Date      |-> NoInstant,
         Valour_Paid_Date  |-> IF i <= 3 THEN Day(2024, 1, 10) ELSE NoInstant,
         Payment_Total_Net |-> IF i <= 3 THEN Num(100000) ELSE NullMoney]]

\* the application shell before it is mounted
NoApp ==
    [session |-> NULL, userProfile |-> [role |-> "none", name |-> ""],
     loading |-> TRUE, authError |-> NULL, currentView |-> "login"]

NoAuth == [session |-> NULL, pending |-> {}, signOuts |-> <<>>]

NoProvider == [business |-> "none", effect |-> FALSE]

NoCall ==
    [op |-> "none", user |-> UserProfile("admin", "Root"),
     startDate |-> NoInstant, endDate |-> NoInstant,
     selectedRepFilter |-> NULL, storeFails |-> FALSE]

Called(op, user, r, selectedRepFilter, storeFails) ==
    [op |-> op, user |-> user, startDate |-> r.start, endDate |-> r.end,
     selectedRepFilter |-> selectedRepFilter, storeFails |-> storeFails]

NoResult == Returned(<<>>, ZeroKpis, FALSE, NoQueries)

\* each adapter reads its own store only: one store holds any rows of its
\* domain while the other is empty, or both hold the scenario
StorePairs ==
    {<<s, <<>>>> : s \in SolarStores} \cup {<<<<>>, e>> : e \in Eco4Stores}
        \cup {<<SolarScenario, Eco4Scenario>>}

InitAdapters ==
    /\ now = AdapterNow
    /\ period = "none"
    /\ customStart = NoDate
    /\ customEnd = NoDate
    /\ range = NoRange
    /\ \E sp \in StorePairs : solarStore = sp[1] /\ eco4Store = sp[2]
    /\ expenseStore = <<>>
    /\ call = NoCall
    /\ app = NoApp
    /\ auth = NoAuth
    /\ lookups = EmptyBag
    /\ provider = NoProvider
    /\ storage = NULL
    /\ result = NoResult
    /\ view = NoView
    /\ loads = EmptyBag

InitDate ==
    /\ now \in Instants
    /\ period = "none"
    /\ customStart = NoDate
    /\ customEnd = NoDate
    /\ range = NoRange
    /\ solarStore = <<>>
    /\ eco4Store = <<>>
    /\ expenseStore = <<>>
    /\ call = NoCall
    /\ app = NoApp
    /\ auth = NoAuth
    /\ lookups = EmptyBag
    /\ provider = NoProvider
    /\ storage = NULL
    /\ result = NoResult
    /\ view = NoView
    /\ loads = EmptyBag

SolarFetchLeads ==
    \E u \in Users, r \in AdapterRanges, f \in RepFilters, fails \in BOOLEAN :
        /\ call.op = "none"
        /\ call' = Called("solar.fetchLeads", u, r, f, fails)
        /\ result' = solar_fetchLeads(solarStore, u, r.start, r.end, f, fails)
        /\ UNCHANGED <<solarStore, eco4Store, expenseStore>>
        /\ UNCHANGED dateVars
        /\ UNCHANGED appVars
        /\ UNCHANGED viewVars

SolarFetchKPIMetrics ==
    \E u \in Users, r \in AdapterRanges, f \in RepFilters, fails \in BOOLEAN :
        /\ call.op = "none"
        /\ call' = Called("solar.fetchKPIMetrics", u, r, f, fails)
        /\ result' = solar_fetchKPIMetrics(solarStore, u, r.start, r.end, f, fails)
        /\ UNCHANGED <<solarStore, eco4Store, expenseStore>>
        /\ UNCHANGED dateVars
        /\ UNCHANGED appVars
        /\ UNCHANGED viewVars

Eco4FetchLeads ==
    \E u \in Users, r \in AdapterRanges, f \in RepFilters, fails \in BOOLEAN,
       random \in Draws(eco4Store) :
        /\ call.op = "none"
        /\ call' = Called("eco4.fetchLeads", u, r, f, fails)
        /\ result' = eco4_fetchLeads(eco4Store, u, r.start, r.end, f, fails,
                                     random)
        /\ UNCHANGED <<solarStore, eco4Store, expenseStore>>
        /\ UNCHANGED dateVars
        /\ UNCHANGED appVars
        /\ UNCHANGED viewVars

Eco4FetchKPIMetrics ==
    \E u \in Users, r \in AdapterRanges, f \in RepFilters, fails \in BOOLEAN :
        /\ call.op = "none"
        /\ call' = Called("eco4.fetchKPIMetrics", u, r, f, fails)
        /\ result' = eco4_fetchKPIMetrics(eco4Store, u, r.start, r.end, f, fails)
        /\ UNCHANGED <<solarStore, eco4Store, expenseStore>>
        /\ UNCHANGED dateVars
        /\ UNCHANGED appVars
        /\ UNCHANGED viewVars

NextAdapters ==
    \/ SolarFetchLeads
    \/ SolarFetchKPIMetrics
    \/ Eco4FetchLeads
    \/ Eco4FetchKPIMetrics

SpecAdapters == InitAdapters /\ [][NextAdapters]_vars

SpecDate == InitDate /\ [][NextDate]_vars

(***************************************************************************)
(* The adapter operations over stores that also hold records dated before  *)
(* the year 2020 of the all_time range.                                    *)
(***************************************************************************)
EarlyDates == <<Day(2019, 5, 15), Day(2024, 0, 15)>>

\* the k-th row of the Solar row domain with the early dates, k in 0 .. 23
EarlySolarRowNo(k, id) ==
    SolarRow(id, EarlyDates[(k % 2) + 1], SolarOwners[((k \div 2) % 4) + 1],
             SolarStages[(k \div 8) + 1])

\* the k-th row of the ECO4 row domain with the early dates, k in 0 .. 9
EarlyEco4RowNo(k, id) ==
    Eco4Row(id, EarlyDates[(k % 2) + 1], Eco4Stages[(k \div 2) + 1])

EarlyStorePairs ==
    {<<[i \in 1..Len(s) |-> EarlySolarRowNo(s[i], i)], <<>>>> :
        s \in Bags(24, MaxRows)}
    \cup {<<<<>>, [i \in 1..Len(s) |-> EarlyEco4RowNo(s[i], i)]>> :
        s \in Bags(10, MaxRows)}

InitAllTime ==
    /\ now = AdapterNow
    /\ period = "none"
    /\ customStart = NoDate
    /\ customEnd = NoDate
    /\ range = NoRange
    /\ \E sp \in EarlyStorePairs : solarStore = sp[1] /\ eco4Store = sp[2]
    /\ expenseStore = <<>>
    /\ call = NoCall
    /\ app = NoApp
    /\ auth = NoAuth
    /\ lookups = EmptyBag
    /\ provider = NoProvider
    /\ storage = NULL
    /\ result = NoResult
    /\ view = NoView
    /\ loads = EmptyBag

SpecAllTime == InitAllTime /\ [][NextAdapters]_vars

(***************************************************************************)
(* Solar fetchLeaderboardStats (solarService.ts:704-740).                  *)
(***************************************************************************)
\* slice(0, 10)
TopN == 10

\* a number a / b that JavaScript computes in floating point
Ratio(a, b) == [n |-> a, d |-> b]

\* The names of the model that are array indices ("7", "12"), with their
\* value; -1 for any other name.  An object lists its array-index keys
\* first, in ascending order, and then the other keys in insertion order.
ArrayIndex(name) ==
    CASE name = "7" -> 7 [] name = "12" -> 12 [] OTHER -> -1

RECURSIVE InsertedReps(_, _)
\* the keys of repStats in the order forEach created them over data[1 .. n]
InsertedReps(data, n) ==
    IF n = 0 THEN <<>>
    ELSE LET prev == InsertedReps(data, n - 1)
             rep  == data[n].Field_Rep
         IN  IF ~Truthy(rep) \/ (\E i \in 1..Len(prev) : prev[i] = rep)
             THEN prev ELSE Append(prev, rep)

RECURSIVE InsertIndexKey(_, _)
InsertIndexKey(sorted, key) ==
    IF sorted = <<>> THEN <<key>>
    ELSE IF ArrayIndex(Head(sorted)) < ArrayIndex(key)
      THEN <<Head(sorted)>> \o InsertIndexKey(Tail(sorted), key)
    ELSE <<key>> \o sorted

RECURSIVE AscendingIndexKeys(_, _)
AscendingIndexKeys(keys, n) ==
    IF n = 0 THEN <<>>
    ELSE InsertIndexKey(AscendingIndexKeys(keys, n - 1), keys[n])

\* the order in which Object.values(repStats) lists the keys
ObjectKeyOrder(inserted) ==
    LET indexKeys == SelectSeq(inserted, LAMBDA k : ArrayIndex(k) >= 0)
    IN  AscendingIndexKeys(indexKeys, Len(indexKeys))
            \o SelectSeq(inserted, LAMBDA k : ArrayIndex(k) < 0)

\* the entry of a rep after the forEach and the conversion map
LeaderboardEntry(data, rep) ==
    LET mine  == SelectSeq(data, LAMBDA l : l.Field_Rep = rep)
        leads == Len(mine)
        paid  == Count(mine, LAMBDA l : l.Status = "Paid")
    IN  [name       |-> rep,
         leads      |-> leads,
         installs   |-> Count(mine, LAMBDA l : l.Install_Booked_Date # NoInstant),
         paid       |-> paid,
         conversion |-> IF leads > 0 THEN Ratio(paid * 100, leads)
                        ELSE Ratio(0, 1)]

\* the leaderboard left as Object.values lists it
leaderboard_sort_none(entries, n) == entries

RECURSIVE InsertByPaidDesc(_, _)
InsertByPaidDesc(sorted, entry) ==
    IF sorted = <<>> THEN <<entry>>
    ELSE IF Head(sorted).paid >= entry.paid
      THEN <<Head(sorted)>> \o InsertByPaidDesc(Tail(sorted), entry)
    ELSE <<entry>> \o sorted

RECURSIVE leaderboard_sort(_, _)
\* entries[1 .. n].sort((a, b) => b.paid - a.paid): the sort is stable
leaderboard_sort(entries, n) ==
    IF n = 0 THEN <<>>
    ELSE InsertByPaidDesc(leaderboard_sort(entries, n - 1), entries[n])

\* arr.slice(0, k)
Slice(arr, k) == SubSeq(arr, 1, IF Len(arr) < k THEN Len(arr) ELSE k)

\* what an aggregate operation hands back: its value, whether it threw
\* instead, and whether it logged an error
Aggregate(value, threw, logged) ==
    [value |-> value, threw |-> threw, logged |-> logged]

solar_fetchLeaderboardStats(store, storeFails) ==
    IF storeFails THEN Aggregate(<<>>, FALSE, TRUE)
    ELSE LET data == SelectSeq(store, LAMBDA l : l.Field_Rep # NULL)
             keys == ObjectKeyOrder(InsertedReps(data, Len(data)))
             leaderboard == [i \in 1..Len(keys) |-> LeaderboardEntry(data, keys[i])]
         IN  Aggregate(Slice(leaderboard_sort(leaderboard, Len(leaderboard)), TopN),
                       FALSE, FALSE)

\* the reps of the small stores: none, the empty name, two names, and two
\* names that are numbers
LeaderReps == <<NULL, "", "Alice", "Bob", "7", "12">>

LeaderRow(id, rep, stage) ==
    SolarRow(id, Day(2024, 0, 15), [Field_Rep |-> rep, Account_Manager |-> NULL],
             stage)

\* the k-th row of the leaderboard row domain, k in 0 .. 11: a rep with a
\* lead that is new or paid
LeaderRowNo(k, id) ==
    LeaderRow(id, LeaderReps[(k % 6) + 1], SolarStages[IF k < 6 THEN 1 ELSE 3])

\* more reps than the leaderboard has places
WideReps ==
    <<"R01", "R02", "R03", "R04", "R05", "R06", "R07", "R08", "R09", "R10",
      "R11", "R12">>

\* one lead per rep of WideReps, those of reps j and k paid
WideStore(j, k) ==
    [i \in 1..Len(WideReps) |->
        LeaderRow(i, WideReps[i], SolarStages[IF i \in {j, k} THEN 3 ELSE 1])]

\* the stores of the leaderboard: the rows in any order
LeaderStores ==
    UNION {{[i \in 1..len |-> LeaderRowNo(s[i], i)] : s \in [1..len -> 0..11]} :
              len \in 0..MaxRows}
    \cup {WideStore(j, k) : j, k \in 1..Len(WideReps)}

InitLeaderboard ==
    /\ now = AdapterNow
    /\ period = "none"
    /\ customStart = NoDate
    /\ customEnd = NoDate
    /\ range = NoRange
    /\ solarStore \in LeaderStores
    /\ eco4Store = <<>>
    /\ expenseStore = <<>>
    /\ call = NoCall
    /\ app = NoApp
    /\ auth = NoAuth
    /\ lookups = EmptyBag
    /\ provider = NoProvider
    /\ storage = NULL
    /\ result = NoResult
    /\ view = NoView
    /\ loads = EmptyBag

SolarFetchLeaderboardStats ==
    \E fails \in BOOLEAN :
        /\ call.op = "none"
        /\ call' = [NoCall EXCEPT !.op = "solar.fetchLeaderboardStats",
                                  !.storeFails = fails]
        /\ result' = solar_fetchLeaderboardStats(solarStore, fails)
        /\ UNCHANGED <<solarStore, eco4Store, expenseStore>>
        /\ UNCHANGED dateVars
        /\ UNCHANGED appVars
        /\ UNCHANGED viewVars

NextLeaderboard == SolarFetchLeaderboardStats

SpecLeaderboard == InitLeaderboard /\ [][NextLeaderboard]_vars

(***************************************************************************)
(* fetchSixMonthTrend (solarService.ts:782-832, eco4Service.ts:188-231).   *)
(* A query that fails resolves to { data: null, error }.                   *)
(***************************************************************************)
\* toLocaleString('default', { month: 'short' })
MonthShort ==
    <<"Jan", "Feb", "Mar", "Apr", "May", "Jun", "Jul", "Aug", "Sep", "Oct",
      "Nov", "Dec">>

monthKey(date) == MonthShort[date.m + 1]

\* startDate.setMonth(startDate.getMonth() - 5); startDate.setDate(1)
trend_startDate(nowD) == setDate(setMonth(nowD, nowD.m - 5), 1)

\* "Initialize last 6 months": the keys of monthlyData in insertion order
trend_keys(startDate) ==
    [i \in 1..6 |-> monthKey(setMonth(startDate, startDate.m + (i - 1)))]

\* .gte(column, startDate.toISOString()): NULL never matches
Since(col, startDate) == col # NoInstant /\ DateLE(startDate, col)

solar_fetchSixMonthTrend(nowD, store, storeFails) ==
    IF storeFails THEN Aggregate(<<>>, FALSE, FALSE)
    ELSE LET startDate == trend_startDate(nowD)
             data == SelectSeq(store, LAMBDA l : Since(l.Created_At, startDate))
             keys == trend_keys(startDate)
         IN  Aggregate(
               [i \in 1..6 |->
                  [month    |-> keys[i],
                   leads    |-> Count(data, LAMBDA l :
                                  monthKey(l.Created_At) = keys[i]),
                   surveys  |-> Count(data, LAMBDA l :
                                  /\ l.Survey_Booked_Date # NoInstant
                                  /\ monthKey(l.Survey_Booked_Date) = keys[i]),
                   installs |-> Count(data, LAMBDA l :
                                  /\ l.Install_Booked_Date # NoInstant
                                  /\ monthKey(l.Install_Booked_Date) = keys[i]),
                   paid     |-> Count(data, LAMBDA l :
                                  /\ l.Status = "Paid"
                                  /\ l.Paid_Date # NoInstant
                                  /\ monthKey(l.Paid_Date) = keys[i])]],
               FALSE, FALSE)

\* the four parallel queries of the ECO4 trend
TrendQueries == {"leads", "surveys", "installs", "paid"}

eco4_fetchSixMonthTrend(nowD, store, failed) ==
    LET startDate == setHours(trend_startDate(nowD), 0)
        keys == trend_keys(startDate)
        \* the rows of a query, none when it failed (data?.forEach)
        Rows(q, column, Extra(_)) ==
            IF q \in failed THEN <<>>
            ELSE Slice(SelectSeq(store, LAMBDA row :
                           Since(row[column], startDate) /\ Extra(row)), 50000)
        InMonth(rows, column, key) ==
            Count(rows, LAMBDA row : monthKey(row[column]) = key)
        leadsData    == Rows("leads", "Lead_Created_Date", LAMBDA row : TRUE)
        surveysData  == Rows("surveys", "Survey_Date", LAMBDA row : TRUE)
        installsData == Rows("installs", "Install_Date", LAMBDA row : TRUE)
        paidData     == Rows("paid", "Valour_Paid_Date",
                             LAMBDA row : Eq(row.Overall_Status, "PAID"))
    IN  Aggregate(
          [i \in 1..6 |->
             [month    |-> keys[i],
              leads    |-> InMonth(leadsData, "Lead_Created_Date", keys[i]),
              surveys  |-> InMonth(surveysData, "Survey_Date", keys[i]),
              installs |-> InMonth(installsData, "Install_Date", keys[i]),
              paid     |-> InMonth(paidData, "Valour_Paid_Date", keys[i])]],
          FALSE, FALSE)

\* the clock of the trend calls: noon of the first, a middle and the last
\* days of every month
TrendInstants ==
    {c \in Instants : c.d \in {1, 15, 28, 29, 30, 31} /\ c.ms = 43200000}

\* when a row of the trend stores was created: long ago, at 08:00 of the
\* first day of a month, later
TrendCreated ==
    <<Day(2022, 10, 10), [y |-> 2023, m |-> 8, d |-> 1, ms |-> 28800000],
      Day(2024, 0, 20)>>

\* the events of a row of the trend stores: none, a survey, all of them
TrendEvents ==
    <<[paid |-> FALSE, survey |-> NoInstant, install |-> NoInstant,
       paidDate |-> NoInstant],
      [paid |-> FALSE, survey |-> Day(2023, 9, 5), install |-> NoInstant,
       paidDate |-> NoInstant],
      [paid |-> TRUE, survey |-> Day(2023, 9, 5), install |-> Day(2023, 10, 10),
       paidDate |-> Day(2024, 1, 15)]>>

\* the k-th row of the Solar trend row domain, k in 0 .. 8
TrendSolarRowNo(k, id) ==
    LET e == TrendEvents[(k \div 3) + 1]
    IN  SolarRow(id, TrendCreated[(k % 3) + 1], SolarOwners[1],
                 [Status |-> IF e.paid THEN "Paid" ELSE "New",
                  Survey_Booked_Date |-> e.survey,
                  Install_Booked_Date |-> e.install,
                  Paid_Date |-> e.paidDate,
                  Lead_Revenue |-> NullMoney])

\* the k-th row of the ECO4 trend row domain, k in 0 .. 8
TrendEco4RowNo(k, id) ==
    LET e == TrendEvents[(k \div 3) + 1]
    IN  Eco4Row(id, TrendCreated[(k % 3) + 1],
                [Overall_Status |-> IF e.paid THEN "PAID" ELSE NULL,
                 Survey_Date |-> e.survey,
                 Install_Date |-> e.install,
                 Valour_Paid_Date |-> e.paidDate,
                 Payment_Total_Net |-> NullMoney])

TrendStorePairs ==
    {<<[i \in 1..Len(s) |-> TrendSolarRowNo(s[i], i)], <<>>>> :
        s \in Bags(9, MaxRows)}
    \cup {<<<<>>, [i \in 1..Len(s) |-> TrendEco4RowNo(s[i], i)]>> :
        s \in Bags(9, MaxRows)}

\* an aggregate operation called, and the queries of it that fail
Asked(op, failed) == [op |-> op, storeFails |-> failed # {}, failed |-> failed]

InitTrend ==
    /\ now \in TrendInstants
    /\ period = "none"
    /\ customStart = NoDate
    /\ customEnd = NoDate
    /\ range = NoRange
    /\ \E sp \in TrendStorePairs : solarStore = sp[1] /\ eco4Store = sp[2]
    /\ expenseStore = <<>>
    /\ call = NoCall
    /\ app = NoApp
    /\ auth = NoAuth
    /\ lookups = EmptyBag
    /\ provider = NoProvider
    /\ storage = NULL
    /\ result = NoResult
    /\ view = NoView
    /\ loads = EmptyBag

SolarFetchSixMonthTrend ==
    \E fails \in BOOLEAN :
        /\ call.op = "none"
        /\ call' = Asked("solar.fetchSixMonthTrend",
                         IF fails THEN {"leads"} ELSE {})
        /\ result' = solar_fetchSixMonthTrend(now, solarStore, fails)
        /\ UNCHANGED <<solarStore, eco4Store, expenseStore>>
        /\ UNCHANGED dateVars
        /\ UNCHANGED appVars
        /\ UNCHANGED viewVars

Eco4FetchSixMonthTrend ==
    \E failed \in {{}, {"surveys"}, TrendQueries} :
        /\ call.op = "none"
        /\ call' = Asked("eco4.fetchSixMonthTrend", failed)
        /\ result' = eco4_fetchSixMonthTrend(now, eco4Store, failed)
        /\ UNCHANGED <<solarStore, eco4Store, expenseStore>>
        /\ UNCHANGED dateVars
        /\ UNCHANGED appVars
        /\ UNCHANGED viewVars

NextTrend ==
    \/ SolarFetchSixMonthTrend
    \/ Eco4FetchSixMonthTrend

SpecTrend == InitTrend /\ [][NextTrend]_vars

(***************************************************************************)
(* The paginated reads, one page request at a time: fetchAllPages          *)
(* (eco4Service.ts:28-58) and the loop of Solar fetchLeadSourceStats       *)
(* (solarService.ts:881-893).  The store answers a page request with a     *)
(* full page, a short page, no rows or an error; `call` holds the loop's   *)
(* variables (rows: the length of allData / allRows).                      *)
(***************************************************************************)
\* the page requests of a loop that are followed
MaxPages == 105

PageOutcomes == {"full", "short", "empty", "error"}

\* data.length of a page
PageLength(outcome) ==
    CASE outcome = "full" -> batchSize
      [] outcome = "short" -> 1
      [] OTHER -> 0

Paging(op) ==
    [op |-> op, from |-> 0, rows |-> 0, pages |-> 0, running |-> TRUE,
     storeFails |-> FALSE, logged |-> FALSE]

\* one pass of the body of `while (true)` in fetchAllPages
eco4_pageStep(loop, outcome) ==
    LET asked == [loop EXCEPT !.pages = @ + 1]
        got   == [asked EXCEPT !.rows = @ + PageLength(outcome)]
    IN  IF outcome = "error"
          THEN [asked EXCEPT !.running = FALSE, !.storeFails = TRUE,
                             !.logged = TRUE]
        ELSE IF outcome = "empty" THEN [asked EXCEPT !.running = FALSE]
        ELSE IF PageLength(outcome) < batchSize
          THEN [got EXCEPT !.running = FALSE]
        ELSE IF loop.from + batchSize > SafetyCap
          THEN [got EXCEPT !.from = @ + batchSize, !.running = FALSE]
        ELSE [got EXCEPT !.from = @ + batchSize]

\* one pass of the body of `while (true)` in fetchLeadSourceStats
solar_pageStep(loop, outcome) ==
    LET asked == [loop EXCEPT !.pages = @ + 1]
        got   == [asked EXCEPT !.rows = @ + PageLength(outcome)]
    IN  IF outcome = "error"
          THEN [asked EXCEPT !.running = FALSE, !.storeFails = TRUE]
        ELSE IF outcome = "empty" THEN [asked EXCEPT !.running = FALSE]
        ELSE IF PageLength(outcome) < batchSize
          THEN [got EXCEPT !.running = FALSE]
        ELSE [got EXCEPT !.from = @ + batchSize]

\* what the loop hands on when it has ended: the rows accumulated
PagesRead(loop) ==
    IF loop.running THEN NoResult
    ELSE Aggregate(loop.rows, FALSE, loop.logged)

InitPaging ==
    /\ now = AdapterNow
    /\ period = "none"
    /\ customStart = NoDate
    /\ customEnd = NoDate
    /\ range = NoRange
    /\ solarStore = <<>>
    /\ eco4Store = <<>>
    /\ expenseStore = <<>>
    /\ call = NoCall
    /\ app = NoApp
    /\ auth = NoAuth
    /\ lookups = EmptyBag
    /\ provider = NoProvider
    /\ storage = NULL
    /\ result = NoResult
    /\ view = NoView
    /\ loads = EmptyBag

CallFetchAllPages ==
    /\ call.op = "none"
    /\ call' = Paging("eco4.fetchAllPages")
    /\ UNCHANGED <<solarStore, eco4Store, expenseStore, result>>
    /\ UNCHANGED dateVars
    /\ UNCHANGED appVars
    /\ UNCHANGED viewVars

CallFetchLeadSourceStats ==
    /\ call.op = "none"
    /\ call' = Paging("solar.fetchLeadSourceStats")
    /\ UNCHANGED <<solarStore, eco4Store, expenseStore, result>>
    /\ UNCHANGED dateVars
    /\ UNCHANGED appVars
    /\ UNCHANGED viewVars

Eco4PageRequest ==
    \E outcome \in PageOutcomes :
        /\ call.op = "eco4.fetchAllPages"
        /\ call.running
        /\ call.pages < MaxPages
        /\ call' = eco4_pageStep(call, outcome)
        /\ result' = PagesRead(call')
        /\ UNCHANGED <<solarStore, eco4Store, expenseStore>>
        /\ UNCHANGED dateVars
        /\ UNCHANGED appVars
        /\ UNCHANGED viewVars

SolarPageRequest ==
    \E outcome \in PageOutcomes :
        /\ call.op = "solar.fetchLeadSourceStats"
        /\ call.running
        /\ call.pages < MaxPages
        /\ call' = solar_pageStep(call, outcome)
        /\ result' = PagesRead(call')
        /\ UNCHANGED <<solarStore, eco4Store, expenseStore>>
        /\ UNCHANGED dateVars
        /\ UNCHANGED appVars
        /\ UNCHANGED viewVars

NextPaging ==
    \/ CallFetchAllPages
    \/ CallFetchLeadSourceStats
    \/ Eco4PageRequest
    \/ SolarPageRequest

SpecPaging == InitPaging /\ [][NextPaging]_vars

(***************************************************************************)
(* fetchAllPages followed page by page with the rows it reads: the store   *)
(* holds the matching rows, numbered in store order, and answers the       *)
(* request range(from, from + batchSize - 1) with the rows at those        *)
(* places.                                                                 *)
(***************************************************************************)
\* the full pages a store of the model holds at most
MaxFullPages == 3

\* what a store holds beyond its full pages
Remainders == {0, 1, 2, 500, 998, 999}

MatchingSizes ==
    {k * batchSize + d : k \in 0..MaxFullPages, d \in Remainders}

\* n matching rows in store order
RowsNumbered(n) == [i \in 1..n |-> i]

\* the `data` of query.range(from, from + batchSize - 1)
PageAt(matching, from) ==
    SubSeq(matching, from + 1,
           IF from + batchSize < Len(matching)
           THEN from + batchSize ELSE Len(matching))

Reading ==
    [op |-> "eco4.fetchAllPages.rows", from |-> 0, allData |-> <<>>,
     offsets |-> <<>>, running |-> TRUE, storeFails |-> FALSE]

\* the body of `while (true)` with a page of at most batchSize rows taken
\* for the last one
eco4_readStep_onePage(loop, matching, fails) ==
    LET data  == PageAt(matching, loop.from)
        asked == [loop EXCEPT !.offsets = Append(@, loop.from)]
    IN  IF fails THEN [asked EXCEPT !.running = FALSE, !.storeFails = TRUE]
        ELSE [asked EXCEPT !.allData = @ \o data, !.running = FALSE]

\* one pass of the body of `while (true)` in fetchAllPages, with the rows
eco4_readStep(loop, matching, fails) ==
    LET data  == PageAt(matching, loop.from)
        asked == [loop EXCEPT !.offsets = Append(@, loop.from)]
        got   == [asked EXCEPT !.allData = @ \o data]
    IN  IF fails THEN [asked EXCEPT !.running = FALSE, !.storeFails = TRUE]
        ELSE IF Len(data) = 0 THEN [asked EXCEPT !.running = FALSE]
        ELSE IF Len(data) < batchSize THEN [got EXCEPT !.running = FALSE]
        ELSE IF loop.from + batchSize > SafetyCap
          THEN [got EXCEPT !.from = @ + batchSize, !.running = FALSE]
        ELSE [got EXCEPT !.from = @ + batchSize]

InitReading ==
    /\ now = AdapterNow
    /\ period = "none"
    /\ customStart = NoDate
    /\ customEnd = NoDate
    /\ range = NoRange
    /\ solarStore = <<>>
    /\ \E n \in MatchingSizes : eco4Store = RowsNumbered(n)
    /\ expenseStore = <<>>
    /\ call = NoCall
    /\ app = NoApp
    /\ auth = NoAuth
    /\ lookups = EmptyBag
    /\ provider = NoProvider
    /\ storage = NULL
    /\ result = NoResult
    /\ view = NoView
    /\ loads = EmptyBag

ReadAllPages ==
    /\ call.op = "none"
    /\ call' = Reading
    /\ UNCHANGED <<solarStore, eco4Store, expenseStore, result>>
    /\ UNCHANGED dateVars
    /\ UNCHANGED appVars
    /\ UNCHANGED viewVars

\* a page request is answered, or fails; `return allData` when the loop ends
ReadPageRequest ==
    \E fails \in BOOLEAN :
        /\ call.op = Reading.op
        /\ call.running
        /\ call' = eco4_readStep(call, eco4Store, fails)
        /\ result' = IF call'.running THEN result
                     ELSE Aggregate(call'.allData, FALSE, call'.storeFails)
        /\ UNCHANGED <<solarStore, eco4Store, expenseStore>>
        /\ UNCHANGED dateVars
        /\ UNCHANGED appVars
        /\ UNCHANGED viewVars

NextReading ==
    \/ ReadAllPages
    \/ ReadPageRequest

SpecReading == InitReading /\ [][NextReading]_vars

(***************************************************************************)
(* fetchInstallerPerformance (solarService.ts:915-973,                     *)
(* eco4Service.ts:308-363).  A rate is the Ratio of its percentage.        *)
(***************************************************************************)
RECURSIVE FirstSeen(_, _)
\* the distinct elements of keys[1 .. n] in the order of their first
\* appearance: the order in which an object gets its string keys
FirstSeen(keys, n) ==
    IF n = 0 THEN <<>>
    ELSE LET prev == FirstSeen(keys, n - 1)
         IN  IF \E i \in 1..Len(prev) : prev[i] = keys[n]
             THEN prev ELSE Append(prev, keys[n])

\* String(name).trim() on the names of the model
Trim(name) == IF name = " Acme " THEN "Acme" ELSE name

\* Math.min(rate, 100)
MinHundred(rate) == IF rate.n > 100 * rate.d THEN Ratio(100, 1) ELSE rate

RECURSIVE InsertByRevenueDesc(_, _)
InsertByRevenueDesc(sorted, stat) ==
    IF sorted = <<>> THEN <<stat>>
    ELSE IF Head(sorted).revenue.n >= stat.revenue.n
      THEN <<Head(sorted)>> \o InsertByRevenueDesc(Tail(sorted), stat)
    ELSE <<stat>> \o sorted

RECURSIVE SortByRevenueDesc(_, _)
\* stats[1 .. n].sort((a, b) => b.revenue - a.revenue)
SortByRevenueDesc(stats, n) ==
    IF n = 0 THEN <<>>
    ELSE InsertByRevenueDesc(SortByRevenueDesc(stats, n - 1), stats[n])

\* the rates of the Solar map: `stat.x || 1` as the denominator
solar_installerRates(stat) ==
    LET leads    == IF stat.leads = 0 THEN 1 ELSE stat.leads
        surveys  == IF stat.surveys = 0 THEN 1 ELSE stat.surveys
        installs == IF stat.installs = 0 THEN 1 ELSE stat.installs
    IN  [leadToPaidRate      |-> Ratio(stat.paid * 100, leads),
         avgRevenuePerLead   |-> Ratio(stat.revenue.n, leads),
         leadToSurveyRate    |-> Ratio(stat.surveys * 100, leads),
         surveyToInstallRate |-> Ratio(stat.installs * 100, surveys),
         installToPaidRate   |-> Ratio(stat.paid * 100, installs)]

\* the rates of the ECO4 map: 0 on a zero denominator, at most 100
eco4_installerRates(stat) ==
    LET Rate(a, b) == MinHundred(IF b > 0 THEN Ratio(a * 100, b) ELSE Ratio(0, 1))
    IN  [leadToPaidRate      |-> Rate(stat.paid, stat.leads),
         avgRevenuePerLead   |-> IF stat.leads > 0
                                 THEN Ratio(stat.revenue.n, stat.leads)
                                 ELSE Ratio(0, 1),
         leadToSurveyRate    |-> Rate(stat.surveys, stat.leads),
         surveyToInstallRate |-> Rate(stat.installs, stat.surveys),
         installToPaidRate   |-> Rate(stat.paid, stat.installs)]

\* { ...stat, <rates> }
WithRates(stat, rates) ==
    [name                |-> stat.name,
     leads               |-> stat.leads,
     surveys             |-> stat.surveys,
     installs            |-> stat.installs,
     paid                |-> stat.paid,
     revenue             |-> stat.revenue,
     leadToPaidRate      |-> rates.leadToPaidRate,
     avgRevenuePerLead   |-> rates.avgRevenuePerLead,
     leadToSurveyRate    |-> rates.leadToSurveyRate,
     surveyToInstallRate |-> rates.surveyToInstallRate,
     installToPaidRate   |-> rates.installToPaidRate]

solar_fetchInstallerPerformance(store, startDate, endDate, storeFails) ==
    IF storeFails THEN Aggregate(<<>>, FALSE, TRUE)
    ELSE LET data == SelectSeq(store, LAMBDA l :
                         InRange(l.Created_At, startDate, endDate))
             Name(l) == IF Truthy(l.Installer) THEN l.Installer ELSE "Unassigned"
             names == ObjectKeyOrder(
                          FirstSeen([i \in 1..Len(data) |-> Name(data[i])], Len(data)))
             Stat(name) ==
                 LET mine == SelectSeq(data, LAMBDA l : Name(l) = name)
                     paid == SelectSeq(mine, LAMBDA l : l.Status = "Paid")
                 IN  [name     |-> name,
                      leads    |-> Len(mine),
                      surveys  |-> Count(mine, LAMBDA l :
                                      l.Survey_Booked_Date # NoInstant),
                      installs |-> Count(mine, LAMBDA l :
                                      l.Install_Booked_Date # NoInstant),
                      paid     |-> Len(paid),
                      revenue  |-> SumRevenue(paid, 1)]
             stats == [i \in 1..Len(names) |->
                          WithRates(Stat(names[i]),
                                    solar_installerRates(Stat(names[i])))]
         IN  Aggregate(SortByRevenueDesc(stats, Len(stats)), FALSE, FALSE)

eco4_fetchInstallerPerformance(store, startDate, endDate, storeFails) ==
    LET isAllTime == eco4_isAllTime(startDate)
        Rows(dateColumn, Extra(_)) ==
            fetchAllPages(store, dateColumn, startDate, endDate, isAllTime,
                          Extra, storeFails).rows
        leadsRows      == Rows("Lead_Created_Date", LAMBDA row : TRUE)
        surveysRows    == Rows("Survey_Date", LAMBDA row : TRUE)
        installsRows   == Rows("Install_Date", LAMBDA row : TRUE)
        financialsRows == Rows("Valour_Paid_Date",
                               LAMBDA row : Eq(row.Overall_Status, "PAID"))
        Name(r) == IF Truthy(r.Current_Installer) THEN Trim(r.Current_Installer)
                   ELSE "Unassigned"
        Mine(rows, name) == SelectSeq(rows, LAMBDA r : Name(r) = name)
        touched == leadsRows \o surveysRows \o installsRows \o financialsRows
        names == ObjectKeyOrder(
                     FirstSeen([i \in 1..Len(touched) |-> Name(touched[i])],
                               Len(touched)))
        Stat(name) ==
            [name     |-> name,
             leads    |-> Len(Mine(leadsRows, name)),
             surveys  |-> Len(Mine(surveysRows, name)),
             installs |-> Len(Mine(installsRows, name)),
             paid     |-> Len(Mine(financialsRows, name)),
             revenue  |-> SumCurrency(Mine(financialsRows, name),
                                      Len(Mine(financialsRows, name)))]
        stats == [i \in 1..Len(names) |->
                     WithRates(Stat(names[i]), eco4_installerRates(Stat(names[i])))]
    IN  Aggregate(SortByRevenueDesc(stats, Len(stats)), FALSE, storeFails)

InstallerNames == <<NULL, "Acme", " Acme ">>

\* how far a row of the installer stores has come: a lead, an install
\* without a survey, a survey, paid without an install, all of them
InstallerEvents ==
    <<[paid |-> FALSE, survey |-> NoInstant, install |-> NoInstant],
      [paid |-> FALSE, survey |-> NoInstant, install |-> Day(2024, 0, 25)],
      [paid |-> FALSE, survey |-> Day(2024, 0, 20), install |-> NoInstant],
      [paid |-> TRUE, survey |-> NoInstant, install |-> NoInstant],
      [paid |-> TRUE, survey |-> Day(2024, 0, 20), install |-> Day(2024, 0, 25)]>>

\* the k-th row of the Solar installer row domain, k in 0 .. 14
InstallerSolarRowNo(k, id) ==
    LET e == InstallerEvents[(k \div 3) + 1]
    IN  SolarRow(id, Day(2024, 0, 15), SolarOwners[1],
                 [Status |-> IF e.paid THEN "Paid" ELSE "New",
                  Survey_Booked_Date |-> e.survey,
                  Install_Booked_Date |-> e.install,
                  Paid_Date |-> IF e.paid THEN Day(2024, 0, 28) ELSE NoInstant,
                  Lead_Revenue |-> IF e.paid THEN Num(50000) ELSE NullMoney])
        @@ [Installer |-> InstallerNames[(k % 3) + 1]]

\* the k-th row of the ECO4 installer row domain, k in 0 .. 14
InstallerEco4RowNo(k, id) ==
    LET e == InstallerEvents[(k \div 3) + 1]
    IN  Eco4Row(id, Day(2024, 0, 15),
                [Overall_Status |-> IF e.paid THEN "PAID" ELSE NULL,
                 Survey_Date |-> e.survey,
                 Install_Date |-> e.install,
                 Valour_Paid_Date |-> IF e.paid THEN Day(2024, 0, 28) ELSE NoInstant,
                 Payment_Total_Net |-> IF e.paid THEN Num(50000) ELSE NullMoney])
        @@ [Current_Installer |-> InstallerNames[(k % 3) + 1]]

InstallerStorePairs ==
    {<<[i \in 1..Len(s) |-> InstallerSolarRowNo(s[i], i)], <<>>>> :
        s \in Bags(15, MaxRows)}
    \cup {<<<<>>, [i \in 1..Len(s) |-> InstallerEco4RowNo(s[i], i)]>> :
        s \in Bags(15, MaxRows)}

\* an aggregate operation called with a range
AskedFor(op, r, storeFails) ==
    [op |-> op, startDate |-> r.start, endDate |-> r.end,
     storeFails |-> storeFails]

InitInstallers ==
    /\ now = AdapterNow
    /\ period = "none"
    /\ customStart = NoDate
    /\ customEnd = NoDate
    /\ range = NoRange
    /\ \E sp \in InstallerStorePairs : solarStore = sp[1] /\ eco4Store = sp[2]
    /\ expenseStore = <<>>
    /\ call = NoCall
    /\ app = NoApp
    /\ auth = NoAuth
    /\ lookups = EmptyBag
    /\ provider = NoProvider
    /\ storage = NULL
    /\ result = NoResult
    /\ view = NoView
    /\ loads = EmptyBag

SolarFetchInstallerPerformance ==
    \E r \in AdapterRanges, fails \in BOOLEAN :
        /\ call.op = "none"
        /\ call' = AskedFor("solar.fetchInstallerPerformance", r, fails)
        /\ result' = solar_fetchInstallerPerformance(solarStore, r.start, r.end, fails)
        /\ UNCHANGED <<solarStore, eco4Store, expenseStore>>
        /\ UNCHANGED dateVars
        /\ UNCHANGED appVars
        /\ UNCHANGED viewVars

Eco4FetchInstallerPerformance ==
    \E r \in AdapterRanges, fails \in BOOLEAN :
        /\ call.op = "none"
        /\ call' = AskedFor("eco4.fetchInstallerPerformance", r, fails)
        /\ result' = eco4_fetchInstallerPerformance(eco4Store, r.start, r.end, fails)
        /\ UNCHANGED <<solarStore, eco4Store, expenseStore>>
        /\ UNCHANGED dateVars
        /\ UNCHANGED appVars
        /\ UNCHANGED viewVars

NextInstallers ==
    \/ SolarFetchInstallerPerformance
    \/ Eco4FetchInstallerPerformance

SpecInstallers == InitInstallers /\ [][NextInstallers]_vars

(***************************************************************************)
(* fetchLeadSourceStats (solarService.ts:872-913, eco4Service.ts:271-306). *)
(***************************************************************************)
\* String(val).trim() on the source labels of the model
TrimLabel(val) == IF val = " Web " THEN "Web" ELSE val

\* the label left as the store has it
normalizeSource_raw(val) == IF Truthy(val) THEN val ELSE "Unknown"

\* val ? String(val).trim() : 'Unknown'
normalizeSource(val) == IF Truthy(val) THEN TrimLabel(val) ELSE "Unknown"

RECURSIVE solar_allRowsFrom(_, _, _, _)
\* the loop of Solar fetchLeadSourceStats over the rows the query selects
solar_allRowsFrom(matching, from, allRows, storeFails) ==
    LET last == IF from + batchSize < Len(matching)
                THEN from + batchSize ELSE Len(matching)
        data == SubSeq(matching, from + 1, last)
    IN  IF storeFails \/ Len(data) = 0 THEN allRows
        ELSE IF Len(data) < batchSize THEN allRows \o data
        ELSE solar_allRowsFrom(matching, from + batchSize, allRows \o data,
                               storeFails)

RECURSIVE InsertByCountDesc(_, _)
InsertByCountDesc(sorted, stat) ==
    IF sorted = <<>> THEN <<stat>>
    ELSE IF Head(sorted).count >= stat.count
      THEN <<Head(sorted)>> \o InsertByCountDesc(Tail(sorted), stat)
    ELSE <<stat>> \o sorted

RECURSIVE SortByCountDesc(_, _)
\* stats[1 .. n].sort((a, b) => b.count - a.count)
SortByCountDesc(stats, n) ==
    IF n = 0 THEN <<>>
    ELSE InsertByCountDesc(SortByCountDesc(stats, n - 1), stats[n])

\* a / b * 100, or 0 when b is 0
PercentOf(a, b) == IF b > 0 THEN Ratio(a * 100, b) ELSE Ratio(0, 1)

solar_fetchLeadSourceStats(store, startDate, endDate, storeFails) ==
    LET allRows == solar_allRowsFrom(
                       SelectSeq(store, LAMBDA l :
                           InRange(l.Created_At, startDate, endDate)),
                       0, <<>>, storeFails)
        total   == Len(allRows)
        Source(l) == normalizeSource(l.Lead_Source)
        sources == ObjectKeyOrder(
                       FirstSeen([i \in 1..total |-> Source(allRows[i])], total))
        Stat(source) ==
            LET mine == SelectSeq(allRows, LAMBDA l : Source(l) = source)
                paid == Count(mine, LAMBDA l : l.Status = "Paid")
            IN  [source     |-> source,
                 count      |-> Len(mine),
                 percentage |-> PercentOf(Len(mine), total),
                 conversion |-> PercentOf(paid, Len(mine))]
        stats == [i \in 1..Len(sources) |-> Stat(sources[i])]
    IN  Aggregate(SortByCountDesc(stats, Len(stats)), FALSE, FALSE)

eco4_fetchLeadSourceStats(store, startDate, endDate, storeFails) ==
    LET isAllTime == eco4_isAllTime(startDate)
        leads     == fetchAllPages(store, "Lead_Created_Date", startDate, endDate,
                                   isAllTime, LAMBDA row : TRUE, storeFails).rows
        paidLeads == fetchAllPages(store, "Valour_Paid_Date", startDate, endDate,
                                   isAllTime,
                                   LAMBDA row : Eq(row.Overall_Status, "PAID"),
                                   storeFails).rows
        Source(row) == normalizeSource(row.Lead_Generation)
        touched == leads \o paidLeads
        sources == ObjectKeyOrder(
                       FirstSeen([i \in 1..Len(touched) |-> Source(touched[i])],
                                 Len(touched)))
        Stat(source) ==
            LET total == Count(leads, LAMBDA row : Source(row) = source)
                paid  == Count(paidLeads, LAMBDA row : Source(row) = source)
            IN  [source     |-> source,
                 count      |-> total,
                 percentage |-> PercentOf(total, Len(leads)),
                 conversion |-> MinHundred(PercentOf(paid, total))]
        stats == [i \in 1..Len(sources) |-> Stat(sources[i])]
    IN  Aggregate(SortByCountDesc(stats, Len(stats)), FALSE, storeFails)

SourceLabels == <<NULL, "Web", " Web ", "Door">>

\* the k-th row of the Solar source row domain, k in 0 .. 15: created in
\* January or February, new or paid
SourceSolarRowNo(k, id) ==
    SolarRow(id, CreatedDates[((k \div 4) % 2) + 1], SolarOwners[1],
             SolarStages[IF k < 8 THEN 1 ELSE 3])
        @@ [Lead_Source |-> SourceLabels[(k % 4) + 1]]

\* the k-th row of the ECO4 source row domain, k in 0 .. 15
SourceEco4RowNo(k, id) ==
    Eco4Row(id, CreatedDates[((k \div 4) % 2) + 1],
            Eco4Stages[IF k < 8 THEN 1 ELSE 4])
        @@ [Lead_Generation |-> SourceLabels[(k % 4) + 1]]

SourceStorePairs ==
    {<<[i \in 1..Len(s) |-> SourceSolarRowNo(s[i], i)], <<>>>> :
        s \in Bags(16, MaxRows)}
    \cup {<<<<>>, [i \in 1..Len(s) |-> SourceEco4RowNo(s[i], i)]>> :
        s \in Bags(16, MaxRows)}

InitSources ==
    /\ now = AdapterNow
    /\ period = "none"
    /\ customStart = NoDate
    /\ customEnd = NoDate
    /\ range = NoRange
    /\ \E sp \in SourceStorePairs : solarStore = sp[1] /\ eco4Store = sp[2]
    /\ expenseStore = <<>>
    /\ call = NoCall
    /\ app = NoApp
    /\ auth = NoAuth
    /\ lookups = EmptyBag
    /\ provider = NoProvider
    /\ storage = NULL
    /\ result = NoResult
    /\ view = NoView
    /\ loads = EmptyBag

SolarFetchLeadSourceStats ==
    \E r \in AdapterRanges, fails \in BOOLEAN :
        /\ call.op = "none"
        /\ call' = AskedFor("solar.fetchLeadSourceStats", r, fails)
        /\ result' = solar_fetchLeadSourceStats(solarStore, r.start, r.end, fails)
        /\ UNCHANGED <<solarStore, eco4Store, expenseStore>>
        /\ UNCHANGED dateVars
        /\ UNCHANGED appVars
        /\ UNCHANGED viewVars

Eco4FetchLeadSourceStats ==
    \E r \in AdapterRanges, fails \in BOOLEAN :
        /\ call.op = "none"
        /\ call' = AskedFor("eco4.fetchLeadSourceStats", r, fails)
        /\ result' = eco4_fetchLeadSourceStats(eco4Store, r.start, r.end, fails)
        /\ UNCHANGED <<solarStore, eco4Store, expenseStore>>
        /\ UNCHANGED dateVars
        /\ UNCHANGED appVars
        /\ UNCHANGED viewVars

NextSources ==
    \/ SolarFetchLeadSourceStats
    \/ Eco4FetchLeadSourceStats

SpecSources == InitSources /\ [][NextSources]_vars

(***************************************************************************)
(* Monetary values as the stores can hand them over: a number, null, or a  *)
(* string that is empty, formatted, plain or not a number at all.          *)
(***************************************************************************)
MoneyValues ==
    <<Num(50000), Num(0), NullMoney, Str(<<>>),
      Str(<<"pound", "1", ",", "2", "3", "4", ".", "5", "0">>),
      Str(<<"5", "0", "0">>),
      Str(<<"pound">>),
      Str(<<"a", "b", "c">>)>>

\* a Solar lead created and paid in February with the k-th monetary value
MoneySolarRowNo(k, id) ==
    SolarRow(id, CreatedDates[2], SolarOwners[1],
             [SolarStages[3] EXCEPT !.Lead_Revenue = MoneyValues[k + 1]])

\* an ECO4 lead created and paid in February with the k-th monetary value
MoneyEco4RowNo(k, id) ==
    Eco4Row(id, CreatedDates[2],
            [Eco4Stages[4] EXCEPT !.Payment_Total_Net = MoneyValues[k + 1]])

MoneyStorePairs ==
    {<<[i \in 1..Len(s) |-> MoneySolarRowNo(s[i], i)], <<>>>> :
        s \in Bags(Len(MoneyValues), MaxRows)}
    \cup {<<<<>>, [i \in 1..Len(s) |-> MoneyEco4RowNo(s[i], i)]>> :
        s \in Bags(Len(MoneyValues), MaxRows)}

InitCurrency ==
    /\ now = AdapterNow
    /\ period = "none"
    /\ customStart = NoDate
    /\ customEnd = NoDate
    /\ range = NoRange
    /\ \E sp \in MoneyStorePairs : solarStore = sp[1] /\ eco4Store = sp[2]
    /\ expenseStore = <<>>
    /\ call = NoCall
    /\ app = NoApp
    /\ auth = NoAuth
    /\ lookups = EmptyBag
    /\ provider = NoProvider
    /\ storage = NULL
    /\ result = NoResult
    /\ view = NoView
    /\ loads = EmptyBag

SpecCurrency == InitCurrency /\ [][NextAdapters]_vars

(***************************************************************************)
(* fetchFinancialData (solarService.ts:977-1106, eco4Service.ts:365-420).  *)
(* An expense is {id, transaction_date, amount, expense_type}, its amount  *)
(* a number of pence.                                                      *)
(***************************************************************************)
\* const expenseTypes = ['Field', 'Online', 'Split', 'Salaries', 'Software', 'Other']
expenseTypes == <<"Field", "Online", "Split", "Salaries", "Software", "Other">>

RECURSIVE SumAmount(_, _)
\* rows[1 .. i].reduce((s, e) => s + e.amount, 0)
SumAmount(rows, i) ==
    IF i = 0 THEN 0 ELSE SumAmount(rows, i - 1) + rows[i].amount

\* expenseData.filter(e => e.expense_type === type).reduce((s, e) => s + e.amount, 0)
AmountOfType(expenseData, type) ==
    LET mine == SelectSeq(expenseData, LAMBDA e : e.expense_type = type)
    IN  SumAmount(mine, Len(mine))

\* Number(val) of a sum: a numeral string is its number, any other is NaN
ToNumber(val) ==
    IF val.t # "str" THEN val
    ELSE LET k    == LeadingDigits(val.s, 1)
             frac == IF k + 1 <= Len(val.s) /\ val.s[k + 1] = "."
                     THEN LeadingDigits(val.s, k + 2) ELSE 0
         IN  IF k > 0 /\ Len(val.s) = k + (IF frac > 0 THEN frac + 1 ELSE 0)
             THEN parseFloat(val.s) ELSE NaN

\* netProfit and margin of a revenue total and an expense total
Summary(totalRevenue, totalExpenses) ==
    LET rev       == ToNumber(totalRevenue)
        netProfit == IF rev.t = "num" THEN Num(rev.n - totalExpenses) ELSE NaN
    IN  [revenue   |-> totalRevenue,
         expenses  |-> totalExpenses,
         netProfit |-> netProfit,
         margin    |-> IF rev.t = "num" /\ rev.n > 0
                       THEN Ratio(netProfit.n * 100, rev.n) ELSE Ratio(0, 1)]

\* count > 0 ? expenses / count : 0, the expenses given as a quotient
\* expenses / count whatever the count
CostPer_unguarded(expenses, count) == Ratio(expenses.n, expenses.d * count)

CostPer(expenses, count) ==
    IF count > 0 THEN Ratio(expenses.n, expenses.d * count) ELSE Ratio(0, 1)

CostPerMetric(expenses, leads, surveys, installs) ==
    [cpl |-> CostPer(expenses, leads),
     cps |-> CostPer(expenses, surveys),
     cpi |-> CostPer(expenses, installs)]

RECURSIVE InsertByAmountDesc(_, _)
InsertByAmountDesc(sorted, entry) ==
    IF sorted = <<>> THEN <<entry>>
    ELSE IF Head(sorted).amount >= entry.amount
      THEN <<Head(sorted)>> \o InsertByAmountDesc(Tail(sorted), entry)
    ELSE <<entry>> \o sorted

RECURSIVE SortByAmountDesc(_, _)
\* entries[1 .. n].sort((a, b) => b.amount - a.amount)
SortByAmountDesc(entries, n) ==
    IF n = 0 THEN <<>>
    ELSE InsertByAmountDesc(SortByAmountDesc(entries, n - 1), entries[n])

ExpenseBreakdown(expenseData, totalExpenses) ==
    SortByAmountDesc(
        [i \in 1..Len(expenseTypes) |->
            [type       |-> expenseTypes[i],
             amount     |-> AmountOfType(expenseData, expenseTypes[i]),
             percentage |-> PercentOf(AmountOfType(expenseData, expenseTypes[i]),
                                      totalExpenses)]],
        Len(expenseTypes))

\* fieldDirect + (splitTotal / 2), onlineDirect + (splitTotal / 2)
solar_channelExpenses(direct, splitTotal) == Ratio(2 * direct + splitTotal, 2)

\* storeFails: each of the three queries answers with an error and no data
solar_fetchFinancialData(ledger, store, startDate, endDate, storeFails) ==
    LET expenseData ==
            IF storeFails THEN <<>>
            ELSE SelectSeq(ledger, LAMBDA e :
                     InRange(e.transaction_date, startDate, endDate))
        leadsData ==
            IF storeFails THEN <<>>
            ELSE SelectSeq(store, LAMBDA l :
                     InRange(l.Created_At, startDate, endDate))
        revenueLeads ==
            IF storeFails THEN <<>>
            ELSE SelectSeq(store, LAMBDA l :
                     /\ l.Status = "Paid"
                     /\ InRange(l.Paid_Date, startDate, endDate))
        totalRevenue   == SumRevenue(revenueLeads, 1)
        totalExpenses  == SumAmount(expenseData, Len(expenseData))
        splitTotal     == AmountOfType(expenseData, "Split")
        fieldExpenses  ==
            solar_channelExpenses(AmountOfType(expenseData, "Field"), splitTotal)
        onlineExpenses ==
            solar_channelExpenses(AmountOfType(expenseData, "Online"), splitTotal)
        Channel(label) ==
            LET mine == SelectSeq(leadsData, LAMBDA l : l.Lead_Source = label)
                paid == SelectSeq(mine, LAMBDA l : l.Status = "Paid")
            IN  [leads    |-> Len(mine),
                 surveys  |-> Count(mine, LAMBDA l :
                                  l.Survey_Booked_Date # NoInstant),
                 installs |-> Count(mine, LAMBDA l :
                                  l.Install_Booked_Date # NoInstant),
                 paid     |-> Len(paid),
                 revenue  |-> RevenueFrom(paid, 1, Num(0))]
        field  == Channel("Field Rep")
        online == Channel("Online Ads")
        Source(label, ch) ==
            [source     |-> label,
             leads      |-> ch.leads,
             paid       |-> ch.paid,
             revenue    |-> ch.revenue,
             conversion |-> PercentOf(ch.paid, ch.leads)]
    IN  Aggregate(
            [summary          |-> Summary(totalRevenue, totalExpenses),
             fieldMetrics     |-> CostPerMetric(fieldExpenses, field.leads,
                                      field.surveys, field.installs),
             onlineMetrics    |-> CostPerMetric(onlineExpenses, online.leads,
                                      online.surveys, online.installs),
             expenseBreakdown |-> ExpenseBreakdown(expenseData, totalExpenses),
             sourceBreakdown  |-> <<Source("Field Rep", field),
                                    Source("Online Ads", online)>>],
            FALSE, storeFails)

\* storeFails: the expense query answers with an error and no data, and so
\* does every page request
eco4_fetchFinancialData(ledger, store, startDate, endDate, storeFails) ==
    LET isAllTime   == eco4_isAllTime(startDate)
        expenseData ==
            IF storeFails THEN <<>>
            ELSE SelectSeq(ledger, LAMBDA e :
                     InRange(e.transaction_date, startDate, endDate))
        Pages(dateColumn, Extra(_)) ==
            fetchAllPages(store, dateColumn, startDate, endDate, isAllTime,
                          Extra, storeFails).rows
        leadsRes    == Pages("Lead_Created_Date", LAMBDA row : TRUE)
        surveysRes  == Pages("Survey_Date", LAMBDA row : TRUE)
        installsRes == Pages("Install_Date", LAMBDA row : TRUE)
        revenueRes  == Pages("Valour_Paid_Date",
                             LAMBDA row : Eq(row.Overall_Status, "PAID"))
        totalExpenses == SumAmount(expenseData, Len(expenseData))
        totalRevenue  == SumCurrency(revenueRes, Len(revenueRes))
        eco4Metrics   == CostPerMetric(Ratio(totalExpenses, 1), Len(leadsRes),
                                       Len(surveysRes), Len(installsRes))
    IN  Aggregate(
            [summary          |-> Summary(totalRevenue, totalExpenses),
             fieldMetrics     |-> eco4Metrics,
             onlineMetrics    |-> eco4Metrics,
             expenseBreakdown |-> ExpenseBreakdown(expenseData, totalExpenses),
             sourceBreakdown  |->
                 <<[source     |-> "ECO4",
                    leads      |-> Len(leadsRes),
                    paid       |-> Len(revenueRes),
                    revenue    |-> totalRevenue,
                    conversion |-> MinHundred(PercentOf(Len(revenueRes),
                                                        Len(leadsRes)))]>>],
            FALSE, storeFails)

ExpenseDates == <<Day(2024, 0, 10), Day(2024, 1, 10)>>

\* the k-th row of the expense row domain, k in 0 .. 11: 1000 pounds of one
\* of the six types, booked in January or February
ExpenseRowNo(k, id) ==
    [id               |-> id,
     transaction_date |-> ExpenseDates[(k \div 6) + 1],
     amount           |-> 100000,
     expense_type     |-> expenseTypes[(k % 6) + 1]]

ExpenseStores ==
    {[i \in 1..Len(s) |-> ExpenseRowNo(s[i], i)] : s \in Bags(12, MaxRows)}

ChannelLabels == <<"Field Rep", "Online Ads", "Referral">>

\* the k-th row of the Solar channel row domain, k in 0 .. 5: a lead of
\* February of one of the labels, new or paid
ChannelSolarRowNo(k, id) ==
    SolarRow(id, CreatedDates[2], SolarOwners[1],
             SolarStages[IF k < 3 THEN 1 ELSE 3])
        @@ [Lead_Source |-> ChannelLabels[(k % 3) + 1]]

\* the k-th row of the ECO4 channel row domain, k in 0 .. 1
ChannelEco4RowNo(k, id) ==
    Eco4Row(id, CreatedDates[2], Eco4Stages[IF k = 0 THEN 1 ELSE 4])

ChannelStorePairs ==
    {<<[i \in 1..Len(s) |-> ChannelSolarRowNo(s[i], i)], <<>>>> :
        s \in Bags(6, MaxRows)}
    \cup {<<<<>>, [i \in 1..Len(s) |-> ChannelEco4RowNo(s[i], i)]>> :
        s \in Bags(2, MaxRows)}

InitFinancials ==
    /\ now = AdapterNow
    /\ period = "none"
    /\ customStart = NoDate
    /\ customEnd = NoDate
    /\ range = NoRange
    /\ \E sp \in ChannelStorePairs : solarStore = sp[1] /\ eco4Store = sp[2]
    /\ expenseStore \in ExpenseStores
    /\ call = NoCall
    /\ app = NoApp
    /\ auth = NoAuth
    /\ lookups = EmptyBag
    /\ provider = NoProvider
    /\ storage = NULL
    /\ result = NoResult
    /\ view = NoView
    /\ loads = EmptyBag

SolarFetchFinancialData ==
    \E r \in AdapterRanges, fails \in BOOLEAN :
        /\ call.op = "none"
        /\ call' = AskedFor("solar.fetchFinancialData", r, fails)
        /\ result' = solar_fetchFinancialData(expenseStore, solarStore,
                                              r.start, r.end, fails)
        /\ UNCHANGED <<solarStore, eco4Store, expenseStore>>
        /\ UNCHANGED dateVars
        /\ UNCHANGED appVars
        /\ UNCHANGED viewVars

Eco4FetchFinancialData ==
    \E r \in AdapterRanges, fails \in BOOLEAN :
        /\ call.op = "none"
        /\ call' = AskedFor("eco4.fetchFinancialData", r, fails)
        /\ result' = eco4_fetchFinancialData(expenseStore, eco4Store,
                                             r.start, r.end, fails)
        /\ UNCHANGED <<solarStore, eco4Store, expenseStore>>
        /\ UNCHANGED dateVars
        /\ UNCHANGED appVars
        /\ UNCHANGED viewVars

NextFinancials ==
    \/ SolarFetchFinancialData
    \/ Eco4FetchFinancialData

SpecFinancials == InitFinancials /\ [][NextFinancials]_vars

(***************************************************************************)
(* fetchFinancialData over leads created in either month and paid inside   *)
(* or outside every range.                                                 *)
(***************************************************************************)
\* Field, Split and Salaries expenses of January and of February
SummaryExpenseNos == <<0, 2, 3, 6, 8, 9>>

SummaryExpenseStores ==
    {[i \in 1..Len(s) |-> ExpenseRowNo(SummaryExpenseNos[s[i] + 1], i)] :
        s \in Bags(Len(SummaryExpenseNos), MaxRows)}

\* the k-th row of the Solar summary row domain, k in 0 .. 7: a lead of the
\* field or the online channel, created in January or February, new or paid
\* in February
SummarySolarRowNo(k, id) ==
    SolarRow(id, CreatedDates[((k \div 2) % 2) + 1], SolarOwners[1],
             SolarStages[IF k < 4 THEN 1 ELSE 3])
        @@ [Lead_Source |-> ChannelLabels[(k % 2) + 1]]

\* an ECO4 lead paid in June 2019
PaidEarly ==
    [Overall_Status |-> "PAID", Survey_Date |-> NoInstant,
     Install_Date |-> NoInstant, Valour_Paid_Date |-> Day(2019, 5, 15),
     Payment_Total_Net |-> Num(70000)]

\* the k-th row of the ECO4 summary row domain, k in 0 .. 5
SummaryEco4RowNo(k, id) ==
    Eco4Row(id, CreatedDates[(k % 2) + 1],
            <<Eco4Stages[1], Eco4Stages[4], PaidEarly>>[(k \div 2) + 1])

SummaryStorePairs ==
    {<<[i \in 1..Len(s) |-> SummarySolarRowNo(s[i], i)], <<>>>> :
        s \in Bags(8, MaxRows)}
    \cup {<<<<>>, [i \in 1..Len(s) |-> SummaryEco4RowNo(s[i], i)]>> :
        s \in Bags(6, MaxRows)}

InitSummary ==
    /\ now = AdapterNow
    /\ period = "none"
    /\ customStart = NoDate
    /\ customEnd = NoDate
    /\ range = NoRange
    /\ \E sp \in SummaryStorePairs : solarStore = sp[1] /\ eco4Store = sp[2]
    /\ expenseStore \in SummaryExpenseStores
    /\ call = NoCall
    /\ app = NoApp
    /\ auth = NoAuth
    /\ lookups = EmptyBag
    /\ provider = NoProvider
    /\ storage = NULL
    /\ result = NoResult
    /\ view = NoView
    /\ loads = EmptyBag

SpecSummary == InitSummary /\ [][NextFinancials]_vars

(***************************************************************************)
(* The ECO4 range operations called with custom ranges, one of them lying  *)
(* in the calendar year 2020, over stores whose records are dated before,  *)
(* in and after that range.                                                *)
(***************************************************************************)
\* 2020-03-01 to 2020-06-30
Custom2020 ==
    getDateRange(AdapterNow, "custom", [y |-> 2020, m |-> 3, d |-> 1],
                 [y |-> 2020, m |-> 6, d |-> 30])

\* 2021-03-01 to 2021-06-30
Custom2021 ==
    getDateRange(AdapterNow, "custom", [y |-> 2021, m |-> 3, d |-> 1],
                 [y |-> 2021, m |-> 6, d |-> 30])

CustomRanges == {Custom2020, Custom2021}

CustomRowDates == <<Day(2020, 0, 15), Day(2020, 3, 10), Day(2021, 3, 10)>>

\* the k-th row of the ECO4 row domain of the custom ranges, k in 0 .. 5: a
\* lead of one of the dates, new, or surveyed, installed and paid that day
CustomEco4RowNo(k, id) ==
    LET day  == CustomRowDates[(k % 3) + 1]
        paid == k >= 3
    IN  Eco4Row(id, day,
                [Overall_Status |-> IF paid THEN "PAID" ELSE NULL,
                 Survey_Date |-> IF paid THEN day ELSE NoInstant,
                 Install_Date |-> IF paid THEN day ELSE NoInstant,
                 Valour_Paid_Date |-> IF paid THEN day ELSE NoInstant,
                 Payment_Total_Net |-> IF paid THEN Num(50000) ELSE NullMoney])
        @@ [Current_Installer |-> "Acme", Lead_Generation |-> "Web"]

CustomEco4Stores ==
    {[i \in 1..Len(s) |-> CustomEco4RowNo(s[i], i)] : s \in Bags(6, MaxRows)}

InitCustom ==
    /\ now = AdapterNow
    /\ period = "none"
    /\ customStart = NoDate
    /\ customEnd = NoDate
    /\ range = NoRange
    /\ solarStore = <<>>
    /\ eco4Store \in CustomEco4Stores
    /\ expenseStore = <<>>
    /\ call = NoCall
    /\ app = NoApp
    /\ auth = NoAuth
    /\ lookups = EmptyBag
    /\ provider = NoProvider
    /\ storage = NULL
    /\ result = NoResult
    /\ view = NoView
    /\ loads = EmptyBag

CustomFetchLeads ==
    \E u \in Users, r \in CustomRanges, fails \in BOOLEAN,
       random \in Draws(eco4Store) :
        /\ call.op = "none"
        /\ call' = Called("eco4.fetchLeads", u, r, NULL, fails)
        /\ result' = eco4_fetchLeads(eco4Store, u, r.start, r.end, NULL, fails,
                                     random)
        /\ UNCHANGED <<solarStore, eco4Store, expenseStore>>
        /\ UNCHANGED dateVars
        /\ UNCHANGED appVars
        /\ UNCHANGED viewVars

CustomFetchKPIMetrics ==
    \E u \in Users, r \in CustomRanges, fails \in BOOLEAN :
        /\ call.op = "none"
        /\ call' = Called("eco4.fetchKPIMetrics", u, r, NULL, fails)
        /\ result' = eco4_fetchKPIMetrics(eco4Store, u, r.start, r.end, NULL,
                                        fails)
        /\ UNCHANGED <<solarStore, eco4Store, expenseStore>>
        /\ UNCHANGED dateVars
        /\ UNCHANGED appVars
        /\ UNCHANGED viewVars

CustomFetchLeadSourceStats ==
    \E r \in CustomRanges, fails \in BOOLEAN :
        /\ call.op = "none"
        /\ call' = Called("eco4.fetchLeadSourceStats", NoCall.user, r, NULL, fails)
        /\ result' = eco4_fetchLeadSourceStats(eco4Store, r.start, r.end, fails)
        /\ UNCHANGED <<solarStore, eco4Store, expenseStore>>
        /\ UNCHANGED dateVars
        /\ UNCHANGED appVars
        /\ UNCHANGED viewVars

CustomFetchInstallerPerformance ==
    \E r \in CustomRanges, fails \in BOOLEAN :
        /\ call.op = "none"
        /\ call' = Called("eco4.fetchInstallerPerformance", NoCall.user, r, NULL, fails)
        /\ result' = eco4_fetchInstallerPerformance(eco4Store, r.start, r.end,
                                                  fails)
        /\ UNCHANGED <<solarStore, eco4Store, expenseStore>>
        /\ UNCHANGED dateVars
        /\ UNCHANGED appVars
        /\ UNCHANGED viewVars

CustomFetchFinancialData ==
    \E r \in CustomRanges, fails \in BOOLEAN :
        /\ call.op = "none"
        /\ call' = Called("eco4.fetchFinancialData", NoCall.user, r, NULL, fails)
        /\ result' = eco4_fetchFinancialData(expenseStore, eco4Store, r.start,
                                           r.end, fails)
        /\ UNCHANGED <<solarStore, eco4Store, expenseStore>>
        /\ UNCHANGED dateVars
        /\ UNCHANGED appVars
        /\ UNCHANGED viewVars

NextCustom ==
    \/ CustomFetchLeads
    \/ CustomFetchKPIMetrics
    \/ CustomFetchLeadSourceStats
    \/ CustomFetchInstallerPerformance
    \/ CustomFetchFinancialData

SpecCustom == InitCustom /\ [][NextCustom]_vars

(***************************************************************************)
(* ECO4 fetchLeads called, and called again with the same arguments, over  *)
(* a frozen store in which a row may carry no id.                          *)
(***************************************************************************)
\* the stores of the ECO4 row domain, each row with its id or without one
IdStores ==
    {[i \in 1..Len(s) |-> Eco4RowNo(s[i], IF i \in withId THEN i ELSE NoId)] :
        s \in Bags(10, MaxRows), withId \in SUBSET (1..MaxRows)}

InitIds ==
    /\ now = AdapterNow
    /\ period = "none"
    /\ customStart = NoDate
    /\ customEnd = NoDate
    /\ range = NoRange
    /\ solarStore = <<>>
    /\ eco4Store \in IdStores
    /\ expenseStore = <<>>
    /\ call = NoCall
    /\ app = NoApp
    /\ auth = NoAuth
    /\ lookups = EmptyBag
    /\ provider = NoProvider
    /\ storage = NULL
    /\ result = NoResult
    /\ view = NoView
    /\ loads = EmptyBag

\* fetchLeads is called once more with the arguments of the last call
Eco4FetchLeadsAgain ==
    \E random \in Draws(eco4Store) :
        /\ call.op = "eco4.fetchLeads"
        /\ result' = eco4_fetchLeads(eco4Store, call.user, call.startDate,
                                     call.endDate, call.selectedRepFilter,
                                     call.storeFails, random)
        /\ UNCHANGED <<solarStore, eco4Store, expenseStore, call>>
        /\ UNCHANGED dateVars
        /\ UNCHANGED appVars
        /\ UNCHANGED viewVars

NextIds ==
    \/ Eco4FetchLeads
    \/ Eco4FetchLeadsAgain

SpecIds == InitIds /\ [][NextIds]_vars

(***************************************************************************)
(* The data views.  The Dashboard renders one view at a time, keyed by the *)
(* business line and the refresh counter, so that a change of either       *)
(* unmounts the view and mounts a fresh one.  A view keeps a period, the   *)
(* custom date inputs, the active dateRange, a loading flag and the data   *)
(* it shows; an effect on [dateRange, business] starts a load, which       *)
(* awaits the adapter calls one after the other and sets state after each. *)
(* A load keeps the dateRange of the render that started it.  What a view  *)
(* shows in a piece of state is recorded as the dateRange of the load that *)
(* set it (NoRange: the initial value of useState).  A state setter called *)
(* by a load of an unmounted view does nothing, so the loads of a view     *)
(* leave `loads` when the view unmounts.  The loads resolve in any order,  *)
(* so `loads` is a bag.                                                    *)
(***************************************************************************)
\* at most MaxLoads loads of a view are outstanding at a time
MaxLoads == 3

Businesses == {"solar", "eco4"}

\* the tabs of CompanyKPIsView
AdminTabs == {"performance", "financials", "installers"}

\* The awaits of a view's load in order, each with the state set when it
\* resolves.
Stages(kind) ==
    CASE kind = "performance" ->
           << {"kpis"},
              {"monthlyTrend", "revenueTrend", "repLeaderboard",
               "amLeaderboard", "sourceStats"} >>
      [] kind = "financials" ->
           << {},
              {"summary", "fieldMetrics", "onlineMetrics", "expenseBreakdown",
               "sourceBreakdown", "trends"} >>
      [] kind = "installers" -> << {"stats"} >>
      [] kind = "fieldreps" -> << {"leads"}, {"kpiCounts"}, {"leaderboard"} >>
      [] OTHER -> << >>

Slots(kind) == UNION {Stages(kind)[i] : i \in 1 .. Len(Stages(kind))}

\* the state that is fetched with dateRange.start and dateRange.end
RangeSlots(kind) ==
    Slots(kind) \ {"monthlyTrend", "revenueTrend", "repLeaderboard", "trends",
                   "leaderboard"}

\* the periods chosen in the DateFilter of a view, and the dates typed into
\* its custom inputs ('' is NoDate)
ViewPeriods == {"this_year", "all_time", "custom"}

ViewDates == {NoDate, [y |-> 2024, m |-> 1, d |-> 31]}

\* the effect on [business]
DefaultPeriod(business) ==
    IF business = "eco4" THEN "all_time" ELSE "this_year"

\* getDateRange(period), as the effect on [period] calls it
PresetRange(p) == getDateRange(now, p, NoDate, NoDate)

\* loadData() up to its first await
Load(dateRange) == [dateRange |-> dateRange, awaiting |-> 1]

\* The view after its mount: the first render has period 'this_year'; the
\* effects set the period of the business line and a new dateRange object,
\* and the renders they cause run the effects again until nothing changes.
MountedView(kind, business) ==
    [kind |-> kind, business |-> business,
     period |-> DefaultPeriod(business),
     customStart |-> NoDate, customEnd |-> NoDate,
     dateRange |-> PresetRange(DefaultPeriod(business)),
     loading |-> TRUE,
     shown |-> [s \in Slots(kind) |-> NoRange],
     logged |-> FALSE]

\* The loads the mount starts: one for the initial dateRange, one for the
\* dateRange object the effect on [period] sets in the first pass, and for
\* ECO4 one more for the all_time range set in the second pass.
MountLoads(business) ==
    SetToBag({Load(PresetRange("this_year"))})
        (+) SetToBag({Load(PresetRange("this_year"))})
        (+) (IF business = "eco4"
             THEN SetToBag({Load(PresetRange("all_time"))}) ELSE EmptyBag)

\* the view the Dashboard or CompanyKPIsView shows first
RootKind(kind) == IF kind \in AdminTabs THEN "performance" ELSE kind

InitView ==
    /\ now = AdapterNow
    /\ period = "none"
    /\ customStart = NoDate
    /\ customEnd = NoDate
    /\ range = NoRange
    /\ solarStore = <<>>
    /\ eco4Store = <<>>
    /\ expenseStore = <<>>
    /\ call = NoCall
    /\ app = NoApp
    /\ auth = NoAuth
    /\ lookups = EmptyBag
    /\ provider = NoProvider
    /\ storage = NULL
    /\ result = NoResult
    /\ \E kind \in {"performance", "fieldreps"}, b \in Businesses :
           /\ view = MountedView(kind, b)
           /\ loads = MountLoads(b)

\* DateFilter.handlePresetChange: a preset clears the custom inputs, the
\* effect on [period] sets its dateRange and the effect on [dateRange,
\* business] starts a load; 'custom' changes the period only.
SelectPeriod ==
    \E p \in ViewPeriods :
        /\ view.kind # "none"
        /\ p # view.period
        /\ IF p = "custom"
           THEN /\ view' = [view EXCEPT !.period = p]
                /\ UNCHANGED loads
           ELSE /\ BagCardinality(loads) < MaxLoads
                /\ view' = [view EXCEPT !.period = p,
                                        !.customStart = NoDate,
                                        !.customEnd = NoDate,
                                        !.dateRange = PresetRange(p),
                                        !.loading = TRUE]
                /\ loads' = loads (+) SetToBag({Load(PresetRange(p))})
        /\ UNCHANGED dateVars
        /\ UNCHANGED appVars
        /\ UNCHANGED adapterVars

SetCustomStart ==
    \E d \in ViewDates :
        /\ view.kind # "none"
        /\ d # view.customStart
        /\ view' = [view EXCEPT !.customStart = d]
        /\ UNCHANGED loads
        /\ UNCHANGED dateVars
        /\ UNCHANGED appVars
        /\ UNCHANGED adapterVars

SetCustomEnd ==
    \E d \in ViewDates :
        /\ view.kind # "none"
        /\ d # view.customEnd
        /\ view' = [view EXCEPT !.customEnd = d]
        /\ UNCHANGED loads
        /\ UNCHANGED dateVars
        /\ UNCHANGED appVars
        /\ UNCHANGED adapterVars

\* handleApply, behind the Apply button that is disabled while an input is
\* empty
HandleApply ==
    /\ view.kind # "none"
    /\ view.customStart # NoDate
    /\ view.customEnd # NoDate
    /\ BagCardinality(loads) < MaxLoads
    /\ LET newRange ==
               getDateRange(now, "custom", view.customStart, view.customEnd)
       IN  /\ view' = [view EXCEPT !.period = "custom",
                                   !.dateRange = newRange,
                                   !.loading = TRUE]
           /\ loads' = loads (+) SetToBag({Load(newRange)})
    /\ UNCHANGED dateVars
    /\ UNCHANGED appVars
    /\ UNCHANGED adapterVars

\* Dashboard: setBusiness changes the key of the view
SetBusiness ==
    \E b \in Businesses :
        /\ view.kind # "none"
        /\ b # view.business
        /\ view' = MountedView(RootKind(view.kind), b)
        /\ loads' = MountLoads(b)
        /\ UNCHANGED dateVars
        /\ UNCHANGED appVars
        /\ UNCHANGED adapterVars

\* Dashboard: handleRefresh changes the key of the view
HandleRefresh ==
    /\ view.kind # "none"
    /\ view' = MountedView(RootKind(view.kind), view.business)
    /\ loads' = MountLoads(view.business)
    /\ UNCHANGED dateVars
    /\ UNCHANGED appVars
    /\ UNCHANGED adapterVars

\* CompanyKPIsView: setActiveTab renders another view
SetActiveTab ==
    \E t \in AdminTabs :
        /\ view.kind \in AdminTabs
        /\ t # view.kind
        /\ view' = MountedView(t, view.business)
        /\ loads' = MountLoads(view.business)
        /\ UNCHANGED dateVars
        /\ UNCHANGED appVars
        /\ UNCHANGED adapterVars

\* The await a load is at resolves: the load sets the state of that stage
\* and goes on to the next await, or, after the last, runs
\* `finally { setLoading(false) }`.
LoadResolves ==
    \E l \in BagToSet(loads) :
        LET sets == Stages(view.kind)[l.awaiting]
            last == l.awaiting = Len(Stages(view.kind))
        IN  /\ view' = [view EXCEPT
                          !.shown = [s \in DOMAIN @ |->
                                        IF s \in sets THEN l.dateRange
                                        ELSE @[s]],
                          !.loading = IF last THEN FALSE ELSE @]
            /\ loads' = IF last THEN loads (-) SetToBag({l})
                        ELSE (loads (-) SetToBag({l}))
                                 (+) SetToBag({[l EXCEPT !.awaiting = @ + 1]})
            /\ UNCHANGED dateVars
            /\ UNCHANGED appVars
            /\ UNCHANGED adapterVars

\* The await a load is at rejects: `catch` logs the error and `finally`
\* clears the loading flag.
LoadRejects ==
    \E l \in BagToSet(loads) :
        /\ view' = [view EXCEPT !.logged = TRUE, !.loading = FALSE]
        /\ loads' = loads (-) SetToBag({l})
        /\ UNCHANGED dateVars
        /\ UNCHANGED appVars
        /\ UNCHANGED adapterVars

NextView ==
    \/ SelectPeriod
    \/ SetCustomStart
    \/ SetCustomEnd
    \/ HandleApply
    \/ SetBusiness
    \/ HandleRefresh
    \/ SetActiveTab
    \/ LoadResolves
    \/ LoadRejects

SpecView == InitView /\ [][NextView]_vars

(***************************************************************************)
(* App.tsx: the session, the profile lookup and what is rendered.  The     *)
(* auth collaborator holds the session; it answers getSession once, may    *)
(* announce the initial session to the subscriber, and announces every     *)
(* sign-in and sign-out.  Sign-ins come from the login screen, sign-outs   *)
(* from the dashboard, the error screen and loadUserProfile.               *)
(***************************************************************************)
Emails == {"ann@valour", "bob@valour"}

\* how many lookups, and how many signOut calls, are in flight at most
MaxPending == 2

\* a further call can be issued
CanIssue(pendingCalls) == BagCardinality(pendingCalls) < MaxPending

\* finances.users: the profile stored under an email, if any
Directory(email) ==
    IF email = "ann@valour" THEN UserProfile("admin", "Ann")
    ELSE NoApp.userProfile

HasProfile(email) == Directory(email) # NoApp.userProfile

NotFoundError == "User profile not found in 'finances.users'. Contact Admin."

LoadError == "Error loading user profile."

\* what App renders
Shown ==
    IF app.loading THEN "spinner"
    ELSE IF app.session = NULL THEN app.currentView
    ELSE IF app.authError # NULL THEN "error"
    ELSE IF app.userProfile # NoApp.userProfile THEN "dashboard"
    ELSE "blank"

\* the callback of onAuthStateChange, and the lookup it starts
onAuthStateChange(session) ==
    IF session # NULL
    THEN /\ app' = [app EXCEPT !.session = session, !.loading = TRUE]
         /\ lookups' = lookups (+) SetToBag({session})
    ELSE /\ app' = [app EXCEPT !.session = NULL,
                               !.userProfile = NoApp.userProfile,
                               !.loading = FALSE]
         /\ UNCHANGED lookups

\* what localStorage may hold under 'active_business' when the app starts
StoredValues == {NULL, "solar", "eco4", "wind"}

\* the initializer of useState in BusinessProvider
initialBusiness_unchecked(saved) == IF saved # NULL THEN saved ELSE "solar"

initialBusiness(saved) ==
    IF saved = "solar" \/ saved = "eco4" THEN saved ELSE "solar"

\* App's render: BusinessProvider is in the tree unless the spinner is
\* shown.  Leaving the tree, its pending effect has run (an effect of a
\* commit runs before the next commit); entering the tree, its state is
\* initialized from localStorage and the effect of the mount is pending.
Renders ==
    IF app'.loading = app.loading
    THEN UNCHANGED <<provider, storage>>
    ELSE IF app'.loading
    THEN /\ provider' = NoProvider
         /\ storage' = IF provider.effect THEN provider.business ELSE storage
    ELSE /\ provider' = [business |-> initialBusiness(storage),
                         effect |-> TRUE]
         /\ storage' = storage

InitAuth ==
    /\ now = AdapterNow
    /\ period = "none"
    /\ customStart = NoDate
    /\ customEnd = NoDate
    /\ range = NoRange
    /\ solarStore = <<>>
    /\ eco4Store = <<>>
    /\ expenseStore = <<>>
    /\ call = NoCall
    /\ result = NoResult
    /\ view = NoView
    /\ loads = EmptyBag
    /\ app = NoApp
    /\ \E session \in Emails \cup {NULL},
          pending \in {{"getSession"}, {"getSession", "INITIAL_SESSION"}} :
           auth = [session |-> session, pending |-> pending,
                   signOuts |-> EmptyBag]
    /\ lookups = EmptyBag
    /\ provider = NoProvider
    /\ storage \in StoredValues

\* supabase.auth.getSession().then(...)
GetSessionResolves ==
    /\ "getSession" \in auth.pending
    /\ auth' = [auth EXCEPT !.pending = @ \ {"getSession"}]
    /\ IF auth.session # NULL
       THEN /\ app' = [app EXCEPT !.session = auth.session]
            /\ lookups' = lookups (+) SetToBag({auth.session})
       ELSE /\ app' = [app EXCEPT !.session = NULL, !.loading = FALSE]
            /\ UNCHANGED lookups
    /\ Renders
    /\ UNCHANGED <<dateVars, adapterVars, viewVars>>

\* the subscriber is told the session the collaborator started with
InitialSessionEvent ==
    /\ "INITIAL_SESSION" \in auth.pending
    /\ auth' = [auth EXCEPT !.pending = @ \ {"INITIAL_SESSION"}]
    /\ onAuthStateChange(auth.session)
    /\ Renders
    /\ UNCHANGED <<dateVars, adapterVars, viewVars>>

\* Login: signInWithPassword succeeds
SignIn ==
    \E email \in Emails :
        /\ Shown = "login"
        /\ auth.session = NULL
        /\ CanIssue(lookups)
        /\ auth' = [auth EXCEPT !.session = email]
        /\ onAuthStateChange(email)
        /\ Renders
        /\ UNCHANGED <<dateVars, adapterVars, viewVars>>

\* onNavigateToSignup, onNavigateToLogin
Navigate ==
    /\ Shown \in {"login", "signup"}
    /\ app' = [app EXCEPT !.currentView =
                              IF @ = "login" THEN "signup" ELSE "login"]
    /\ UNCHANGED <<auth, lookups>>
    /\ Renders
    /\ UNCHANGED <<dateVars, adapterVars, viewVars>>

\* Dashboard: onClick={() => supabase.auth.signOut()}
DashboardSignOut ==
    /\ Shown = "dashboard"
    /\ CanIssue(auth.signOuts)
    /\ auth' = [auth EXCEPT !.signOuts = @ (+) SetToBag({"button"})]
    /\ UNCHANGED <<app, lookups>>
    /\ Renders
    /\ UNCHANGED <<dateVars, adapterVars, viewVars>>

\* Back to Login: setAuthError(null); supabase.auth.signOut()
BackToLogin ==
    /\ Shown = "error"
    /\ CanIssue(auth.signOuts)
    /\ app' = [app EXCEPT !.authError = NULL]
    /\ auth' = [auth EXCEPT !.signOuts = @ (+) SetToBag({"button"})]
    /\ UNCHANGED lookups
    /\ Renders
    /\ UNCHANGED <<dateVars, adapterVars, viewVars>>

\* loadUserProfile after fetchUserProfile answered: the profile, or null
\* when the directory has none for the email
LookupResolves ==
    \E email \in BagToSet(lookups) :
        /\ HasProfile(email) \/ CanIssue(auth.signOuts)
        /\ lookups' = lookups (-) SetToBag({email})
        /\ IF HasProfile(email)
           THEN /\ app' = [app EXCEPT !.userProfile = Directory(email),
                                      !.loading = FALSE]
                /\ UNCHANGED auth
           ELSE /\ app' = [app EXCEPT !.authError = NotFoundError]
                /\ auth' = [auth EXCEPT
                               !.signOuts = @ (+) SetToBag({"loadUserProfile"})]
        /\ Renders
        /\ UNCHANGED <<dateVars, adapterVars, viewVars>>

\* loadUserProfile when fetchUserProfile throws
LookupThrows ==
    \E email \in BagToSet(lookups) :
        /\ lookups' = lookups (-) SetToBag({email})
        /\ app' = [app EXCEPT !.authError = LoadError, !.loading = FALSE]
        /\ UNCHANGED auth
        /\ Renders
        /\ UNCHANGED <<dateVars, adapterVars, viewVars>>

\* a signOut call completes: the subscriber is told when a session ends
\* (and may be told when there was none), then loadUserProfile runs its
\* finally block
SignOutCompletes ==
    \E origin \in BagToSet(auth.signOuts), told \in BOOLEAN :
        /\ auth.session # NULL => told
        /\ auth' = [auth EXCEPT !.session = NULL,
                                !.signOuts = @ (-) SetToBag({origin})]
        /\ app' = [app EXCEPT
                      !.session = IF told THEN NULL ELSE @,
                      !.userProfile = IF told THEN NoApp.userProfile ELSE @,
                      !.loading = IF told \/ origin = "loadUserProfile"
                                  THEN FALSE ELSE @]
        /\ UNCHANGED lookups
    /\ Renders
        /\ UNCHANGED <<dateVars, adapterVars, viewVars>>

\* Dashboard: onClick={() => setBusiness('solar' | 'eco4')}; setting the
\* value the state already has renders nothing and schedules no effect
setBusiness ==
    \E b \in Businesses :
        /\ Shown = "dashboard"
        /\ b # provider.business
        /\ provider' = [provider EXCEPT !.business = b, !.effect = TRUE]
        /\ UNCHANGED <<app, auth, lookups, storage>>
        /\ UNCHANGED <<dateVars, adapterVars, viewVars>>

\* useEffect(() => localStorage.setItem('active_business', business),
\* [business])
RunEffect ==
    /\ provider.effect
    /\ storage' = provider.business
    /\ provider' = [provider EXCEPT !.effect = FALSE]
    /\ UNCHANGED <<app, auth, lookups>>
    /\ UNCHANGED <<dateVars, adapterVars, viewVars>>

NextAuth ==
    \/ GetSessionResolves
    \/ InitialSessionEvent
    \/ SignIn
    \/ Navigate
    \/ DashboardSignOut
    \/ BackToLogin
    \/ LookupResolves
    \/ LookupThrows
    \/ SignOutCompletes
    \/ setBusiness
    \/ RunEffect

SpecAuth == InitAuth /\ [][NextAuth]_vars

(***************************************************************************)
(* The views of the two non-admin roles (Dashboard.tsx:93-99):             *)
(* FieldRepsView (supabaseClient.ts:376-449) for a field rep and           *)
(* AccountManagerView (CompanyFinancialsView.tsx:322-384) for an account   *)
(* manager, over the scenario stores.  A view holds what its loads set.    *)
(***************************************************************************)
\* solarService.fetchAccountManagerLeaderboard
solar_fetchAccountManagerLeaderboard(store, startDate, endDate, storeFails) ==
    IF storeFails THEN <<>>
    ELSE LET data == SelectSeq(store, LAMBDA l :
                         /\ l.Account_Manager # NULL
                         /\ Truthy(l.Account_Manager)
                         /\ InRange(l.Created_At, startDate, endDate))
             keys == ObjectKeyOrder(
                         FirstSeen([i \in 1..Len(data) |->
                                       data[i].Account_Manager], Len(data)))
             Entry(am) ==
                 LET mine == SelectSeq(data, LAMBDA l : l.Account_Manager = am)
                     paid == Count(mine, LAMBDA l : l.Status = "Paid")
                 IN  [name       |-> am,
                      leads      |-> Len(mine),
                      installs   |-> Count(mine, LAMBDA l :
                                        l.Install_Booked_Date # NoInstant),
                      paid       |-> paid,
                      conversion |-> PercentOf(paid, Len(mine))]
             leaderboard == [i \in 1..Len(keys) |-> Entry(keys[i])]
         IN  leaderboard_sort(leaderboard, Len(leaderboard))

\* the dateRange memo of AccountManagerView
am_dateRange(nowD, p) ==
    LET start ==
            CASE p = "this_month" -> setDate(nowD, 1)
              [] p = "last_month" -> setDate(setMonth(nowD, nowD.m - 1), 1)
              [] p = "this_quarter" ->
                   setDate(setMonth(nowD, (nowD.m \div 3) * 3), 1)
              [] p \in {"this_year", "custom"} -> setMonthDay(nowD, 0, 1)
              [] OTHER -> nowD
        end == IF p = "last_month" THEN setDate(nowD, 0) ELSE nowD
    IN  [start |-> setHours(start, 0), end |-> setHours(end, EndOfDayMs)]

RoleUsers ==
    {UserProfile("field_rep", "Alice"), UserProfile("account_manager", "Carol")}

\* Dashboard: the view of the role
RoleKind(user) ==
    IF user.role = "account_manager" THEN "accountmanager" ELSE "fieldreps"

\* the period buttons of a view
RolePeriods(kind) ==
    IF kind = "accountmanager"
    THEN {"this_month", "last_month", "this_quarter", "this_year"}
    ELSE {"this_month", "this_year", "all_time"}

\* the range the loads of a view are issued with
RoleRange(kind, p) ==
    IF kind = "accountmanager" THEN am_dateRange(now, p) ELSE PresetRange(p)

\* the view after its mount and the effects of the mount
MountedRoleView(user, business) ==
    LET kind == RoleKind(user)
        p    == IF kind = "accountmanager" THEN "this_year"
                ELSE DefaultPeriod(business)
    IN  [kind |-> kind, user |-> user, business |-> business,
         period |-> p, dateRange |-> RoleRange(kind, p),
         leads |-> <<>>,
         kpiCounts |-> [leadsCount |-> 0, surveysCount |-> 0,
                        installsCount |-> 0, paidCount |-> 0],
         leaderboard |-> <<>>,
         loading |-> TRUE, logged |-> FALSE, loaded |-> FALSE]

\* the loads the mount starts: those of FieldRepsView, or the one load of
\* AccountManagerView
MountRoleLoads(user, business) ==
    IF RoleKind(user) = "accountmanager"
    THEN SetToBag({Load(am_dateRange(now, "this_year"))})
    ELSE MountLoads(business)

\* The call a load of the view is awaiting, answered: FieldRepsView calls
\* the service of the business line, AccountManagerView calls solarService.
Awaited(v, l, storeFails) ==
    LET solar == v.kind = "accountmanager" \/ v.business = "solar"
        start == l.dateRange.start
        end   == l.dateRange.end
    IN  CASE l.awaiting = 1 ->
               LET r == IF solar
                        THEN solar_fetchLeads(solarStore, v.user, start, end,
                                              NULL, storeFails)
                        ELSE eco4_fetchLeads(eco4Store, v.user, start, end,
                                             NULL, storeFails,
                                             NoDraws(eco4Store))
               IN  [threw |-> r.threw, sets |-> "leads", value |-> r.leads,
                    service |-> IF solar THEN "solar" ELSE "eco4"]
          [] l.awaiting = 2 /\ v.kind = "fieldreps" ->
               LET r == IF solar
                        THEN solar_fetchKPIMetrics(solarStore, v.user, start,
                                                   end, NULL, storeFails)
                        ELSE eco4_fetchKPIMetrics(eco4Store, v.user, start,
                                                  end, NULL, storeFails)
               IN  [threw |-> r.threw, sets |-> "kpiCounts", value |-> r.kpis,
                    service |-> IF solar THEN "solar" ELSE "eco4"]
          [] l.awaiting = 2 /\ v.kind = "accountmanager" ->
               [threw |-> FALSE, sets |-> "leaderboard",
                value |-> solar_fetchAccountManagerLeaderboard(
                              solarStore, start, end, storeFails),
                service |-> "solar"]
          [] OTHER ->
               [threw |-> FALSE, sets |-> "leaderboard",
                value |-> IF solar
                          THEN solar_fetchLeaderboardStats(solarStore,
                                                           storeFails).value
                          ELSE <<>>,
                service |-> IF solar THEN "solar" ELSE "eco4"]

\* the awaits of loadData
RoleStages(kind) == IF kind = "accountmanager" THEN 2 ELSE 3

InitRoleViews ==
    /\ now = AdapterNow
    /\ period = "none"
    /\ customStart = NoDate
    /\ customEnd = NoDate
    /\ range = NoRange
    /\ solarStore = SolarScenario
    /\ eco4Store = Eco4Scenario
    /\ expenseStore = <<>>
    /\ call = NoCall
    /\ result = NoResult
    /\ \E user \in RoleUsers, b \in Businesses :
           /\ view = MountedRoleView(user, b)
           /\ loads = MountRoleLoads(user, b)
    /\ app = NoApp
    /\ auth = NoAuth
    /\ lookups = EmptyBag
    /\ provider = NoProvider
    /\ storage = NULL

\* a period button: the new dateRange starts a load
RoleSelectPeriod ==
    \E p \in RolePeriods(view.kind) :
        /\ p # view.period
        /\ BagCardinality(loads) < MaxLoads
        /\ view' = [view EXCEPT !.period = p,
                                !.dateRange = RoleRange(view.kind, p),
                                !.loading = TRUE]
        /\ loads' = loads (+) SetToBag({Load(RoleRange(view.kind, p))})
        /\ UNCHANGED <<dateVars, adapterVars, appVars>>

\* Dashboard: setBusiness changes the key of the view, which mounts anew
RoleSetBusiness ==
    \E b \in Businesses :
        /\ b # view.business
        /\ view' = MountedRoleView(view.user, b)
        /\ loads' = MountRoleLoads(view.user, b)
        /\ UNCHANGED <<dateVars, adapterVars, appVars>>

\* Dashboard: handleRefresh changes the key of the view
RoleRefresh ==
    /\ view' = MountedRoleView(view.user, view.business)
    /\ loads' = MountRoleLoads(view.user, view.business)
    /\ UNCHANGED <<dateVars, adapterVars, appVars>>

\* The call a load is awaiting settles.  When it returns, the load sets
\* the state of the stage and goes on, or, after the last stage, is done;
\* when it throws, `catch` logs the error.  `finally` clears the loading
\* flag.  The call is recorded in `call`.
RoleLoadSettles ==
    \E l \in BagToSet(loads), storeFails \in BOOLEAN :
        LET a    == Awaited(view, l, storeFails)
            last == l.awaiting = RoleStages(view.kind)
        IN  /\ call' = [NoCall EXCEPT !.op = a.service \o "." \o a.sets,
                                      !.user = view.user,
                                      !.startDate = l.dateRange.start,
                                      !.endDate = l.dateRange.end,
                                      !.storeFails = storeFails]
            /\ IF a.threw
               THEN /\ view' = [view EXCEPT !.logged = TRUE, !.loading = FALSE]
                    /\ loads' = loads (-) SetToBag({l})
               ELSE /\ view' = [view EXCEPT
                                  ![a.sets] = a.value,
                                  !.loading = IF last THEN FALSE ELSE @,
                                  !.loaded = IF last THEN TRUE ELSE @]
                    /\ loads' = IF last THEN loads (-) SetToBag({l})
                                ELSE (loads (-) SetToBag({l})) (+)
                                     SetToBag({[l EXCEPT !.awaiting = @ + 1]})
            /\ UNCHANGED <<solarStore, eco4Store, expenseStore, result>>
            /\ UNCHANGED <<dateVars, appVars>>

NextRoleViews ==
    \/ RoleSelectPeriod
    \/ RoleSetBusiness
    \/ RoleRefresh
    \/ RoleLoadSettles

SpecRoleViews == InitRoleViews /\ [][NextRoleViews]_vars


(***************************************************************************)
(* Properties of the date range resolver.                                  *)
(***************************************************************************)
NowBasedPeriods ==
    {"this_month", "last_month", "this_quarter", "this_year", "last_year"}

\* C8: for every current date (the 29th, 30th and 31st included) and every
\* period of this_month, last_month, this_quarter, this_year and last_year,
\* the range getDateRange(period) returns has start <= end.
C8_StartLeEnd ==
    period \in NowBasedPeriods => DateLE(range.start, range.end)

\* the calendar month before the month of `now`
PrevMonthYear == IF now.m = 0 THEN now.y - 1 ELSE now.y

PrevMonth == IF now.m = 0 THEN 11 ELSE now.m - 1

\* C9: for every current date, getDateRange('last_month') starts at
\* 00:00:00.000 of the first day of the previous calendar month and ends at
\* 23:59:59.999 of the last day of that same month; on no day of March does it
\* start in March.
C9_LastMonthIsPreviousMonth ==
    period = "last_month" =>
        /\ range.start =
             [y |-> PrevMonthYear, m |-> PrevMonth, d |-> 1, ms |-> 0]
        /\ range.end =
             [y |-> PrevMonthYear, m |-> PrevMonth,
              d |-> DaysInMonth(PrevMonthYear, PrevMonth), ms |-> EndOfDayMs]

\* C10: for every current date with month index m (the last day of each month
\* included), getDateRange('this_quarter') starts at 00:00:00.000 of day 1 of
\* month 3 * floor(m / 3) of the current year.
C10_QuarterStart ==
    period = "this_quarter" =>
        range.start =
            [y |-> now.y, m |-> 3 * (now.m \div 3), d |-> 1, ms |-> 0]

(***************************************************************************)
(* Properties of the access policy and of the KPI counts.                  *)
(***************************************************************************)
\* the rows of the Solar store created inside the range of the call
CreatedInRange(row) == InRange(row.Created_At, call.startDate, call.endDate)

\* the rows created in range that are assigned to the calling field rep
OwnAsFieldRep(row) ==
    CreatedInRange(row) /\ row.Field_Rep = call.user.name

\* the rows created in range that are assigned to the calling account manager
OwnAsAccountManager(row) ==
    CreatedInRange(row) /\ row.Account_Manager = call.user.name

\* the KPI bundle counted over the rows of the Solar store that satisfy Own
KpisOver(Own(_)) ==
    [leadsCount    |-> Count(solarStore, Own),
     surveysCount  |-> Count(solarStore, LAMBDA r :
                          Own(r) /\ r.Survey_Booked_Date # NoInstant),
     installsCount |-> Count(solarStore, LAMBDA r :
                          Own(r) /\ r.Install_Booked_Date # NoInstant),
     paidCount     |-> Count(solarStore, LAMBDA r : Own(r) /\ r.Status = "Paid"),
     revenue       |-> SumRevenue(SelectSeq(solarStore, LAMBDA r :
                          Own(r) /\ r.Status = "Paid"), 1)]

\* C3: for a field_rep user, Solar fetchLeads returns and Solar
\* fetchKPIMetrics counts only the records whose Field_Rep is user.name, for
\* every date range and every selectedRepFilter: an override name neither
\* widens nor changes the scope.
C3_FieldRepSelfScope ==
    call.user.role = "field_rep" =>
        /\ call.op = "solar.fetchLeads" =>
             /\ \A i \in 1..Len(result.leads) :
                    result.leads[i].Field_Rep = call.user.name
             /\ ~call.storeFails =>
                    result.leads = SelectSeq(solarStore, OwnAsFieldRep)
        /\ call.op = "solar.fetchKPIMetrics" /\ ~call.storeFails =>
             result.kpis = KpisOver(OwnAsFieldRep)

\* a field rep called fetchLeads with another rep's name as the override,
\* that rep has a lead in range, and the field rep got leads back
C3_Witness ==
    /\ call.op = "solar.fetchLeads"
    /\ call.user.role = "field_rep"
    /\ call.selectedRepFilter = "Bob"
    /\ \E i \in 1..Len(solarStore) :
           CreatedInRange(solarStore[i]) /\ solarStore[i].Field_Rep = "Bob"
    /\ Len(result.leads) > 0

\* C4: for an account_manager user, Solar fetchLeads returns only the records
\* whose Account_Manager is user.name, and with an empty or missing user.name
\* it returns the empty list, no record of the store (fail-closed).
C4_AccountManagerLeadsScope ==
    call.op = "solar.fetchLeads" /\ call.user.role = "account_manager" =>
        /\ \A i \in 1..Len(result.leads) :
               result.leads[i].Account_Manager = call.user.name
        /\ call.user.name = "" =>
               result.leads = <<>> /\ ~result.threw /\ result.queries = NoQueries
        /\ call.user.name # "" /\ ~call.storeFails =>
               result.leads = SelectSeq(solarStore, OwnAsAccountManager)

\* an account manager called fetchLeads, another account manager has a lead
\* in range, and the caller got leads back
C4_Witness ==
    /\ call.op = "solar.fetchLeads"
    /\ call.user.role = "account_manager"
    /\ \E i \in 1..Len(solarStore) :
           /\ CreatedInRange(solarStore[i])
           /\ solarStore[i].Account_Manager = "Dave"
    /\ Len(result.leads) > 0

\* C5: for an account_manager user, Solar fetchKPIMetrics counts leads,
\* surveys, installs, paid and revenue only over the records whose
\* Account_Manager is user.name, never over another account manager's.
C5_AccountManagerKpiScope ==
    /\ call.op = "solar.fetchKPIMetrics"
    /\ call.user.role = "account_manager"
    /\ ~call.storeFails
    => result.kpis = KpisOver(OwnAsAccountManager)

\* C6: for every user whose role is not admin, every date range and name
\* filter, ECO4 fetchLeads returns the empty list and ECO4 fetchKPIMetrics
\* returns all-zero counts and revenue, and no query goes to the ECO4 store.
C6_Eco4NonAdminDenied ==
    call.user.role # "admin" =>
        /\ call.op = "eco4.fetchLeads" =>
             /\ result.leads = <<>>
             /\ ~result.threw
             /\ result.queries.eco4 = 0
        /\ call.op = "eco4.fetchKPIMetrics" =>
             /\ result.kpis = ZeroKpis
             /\ ~result.threw
             /\ result.queries.eco4 = 0

\* a user who is no admin called ECO4 fetchKPIMetrics on a store that holds
\* a lead created in range, and the store did not fail
C6_Witness ==
    /\ call.op = "eco4.fetchKPIMetrics"
    /\ call.user.role = "account_manager"
    /\ ~call.storeFails
    /\ \E i \in 1..Len(eco4Store) :
           InRange(eco4Store[i].Lead_Created_Date, call.startDate, call.endDate)

\* an admin called fetchKPIMetrics without a name filter and the store answered
UnscopedKpiCall(op) ==
    /\ call.op = op
    /\ call.user.role = "admin"
    /\ ~Truthy(call.selectedRepFilter)
    /\ ~call.storeFails

CallRange == [start |-> call.startDate, end |-> call.endDate]

OnScenario == solarStore = SolarScenario /\ eco4Store = Eco4Scenario

\* C7 as claimed: fetchKPIMetrics counts leads, surveys and installs over the
\* records whose creation date is in range and paid over the records whose
\* paid date is in range: on the scenario store a January-only range yields
\* leadsCount = 10, surveysCount = 6 and paidCount = 0, a February-only range
\* yields paidCount = 3.
C7_CohortCountsEventPaid ==
    /\ OnScenario
    /\ UnscopedKpiCall("solar.fetchKPIMetrics")
           \/ UnscopedKpiCall("eco4.fetchKPIMetrics")
    => /\ CallRange = JanRange =>
            /\ result.kpis.leadsCount = 10
            /\ result.kpis.surveysCount = 6
            /\ result.kpis.paidCount = 0
       /\ CallRange = FebRange => result.kpis.paidCount = 3

\* an ECO4 count query on dateColumn, for a range that is not all time
Eco4CountOf(dateColumn, Extra(_)) ==
    Count(eco4Store, LAMBDA r :
        InRange(r[dateColumn], call.startDate, call.endDate) /\ Extra(r))

\* C7, amended: Solar fetchKPIMetrics counts leads, surveys, installs, paid
\* and revenue all over the records whose creation date is in range; ECO4
\* fetchKPIMetrics counts leads, surveys, installs and paid each over the
\* records whose own date (created, survey, install, paid) is in range.  On
\* the scenario store Solar yields 10 leads, 6 surveys, 3 paid for January
\* and 0 leads, 0 paid for February; ECO4 yields 10 leads, 4 surveys, 0 paid
\* for January and 2 surveys, 3 paid for February.
C7_CountsPerAdapter ==
    /\ UnscopedKpiCall("solar.fetchKPIMetrics") =>
         /\ result.kpis = KpisOver(CreatedInRange)
         /\ OnScenario /\ CallRange = JanRange =>
              /\ result.kpis.leadsCount = 10
              /\ result.kpis.surveysCount = 6
              /\ result.kpis.paidCount = 3
         /\ OnScenario /\ CallRange = FebRange =>
              /\ result.kpis.leadsCount = 0
              /\ result.kpis.paidCount = 0
    /\ UnscopedKpiCall("eco4.fetchKPIMetrics") /\ call.startDate.y # 2020 =>
         /\ result.kpis.leadsCount =
                Eco4CountOf("Lead_Created_Date", LAMBDA r : TRUE)
         /\ result.kpis.surveysCount =
                Eco4CountOf("Survey_Date", LAMBDA r : TRUE)
         /\ result.kpis.installsCount =
                Eco4CountOf("Install_Date", LAMBDA r : TRUE)
         /\ result.kpis.paidCount =
                Eco4CountOf("Valour_Paid_Date",
                            LAMBDA r : r.Overall_Status = "PAID")
         /\ OnScenario /\ CallRange = JanRange =>
              /\ result.kpis.leadsCount = 10
              /\ result.kpis.surveysCount = 4
              /\ result.kpis.paidCount = 0
         /\ OnScenario /\ CallRange = FebRange =>
              /\ result.kpis.surveysCount = 2
              /\ result.kpis.paidCount = 3

\* an admin asked Solar for the KPIs of January on the scenario store and got
\* the three paid leads of the January cohort
C7_Witness ==
    /\ OnScenario
    /\ UnscopedKpiCall("solar.fetchKPIMetrics")
    /\ CallRange = JanRange
    /\ result.kpis.leadsCount = 10
    /\ result.kpis.paidCount = 3

(***************************************************************************)
(* Properties of the data views.                                           *)
(***************************************************************************)
\* C1: in every data view, the result of a load that was issued before the
\* date range (or the business line) changed is discarded when it arrives:
\* for every arrival order, once all loads have settled (none of them
\* having failed) everything the view shows that was fetched with a date
\* range is the result of the load for the active date range.
C1_StaleResultDiscarded ==
    (view.kind # "none" /\ loads = EmptyBag /\ ~view.logged)
        => \A s \in RangeSlots(view.kind) : view.shown[s] = view.dateRange

\* C2: a view never has loading = false while a load it issued is pending;
\* in particular the completion of the first of two overlapping loads does
\* not clear the flag, and state of which only a part has been set by a
\* load is never shown with loading = false.
C2_NotFinalWhilePending ==
    (view.kind # "none" /\ view.loading = FALSE) => loads = EmptyBag

(***************************************************************************)
(* Properties of the all_time range.                                       *)
(***************************************************************************)
\* a range that holds every date of a store
WholeRange ==
    [start |-> [y |-> 1, m |-> 0, d |-> 1, ms |-> 0],
     end   |-> [y |-> 9999, m |-> 11, d |-> 31, ms |-> EndOfDayMs]]

\* the last call with its date filter holding every record
WithoutDateFilter ==
    LET Op(F(_, _, _, _, _, _), store) ==
            F(store, call.user, WholeRange.start, WholeRange.end,
              call.selectedRepFilter, call.storeFails)
    IN  CASE call.op = "solar.fetchLeads" -> Op(solar_fetchLeads, solarStore)
          [] call.op = "solar.fetchKPIMetrics" ->
               Op(solar_fetchKPIMetrics, solarStore)
          [] call.op = "eco4.fetchLeads" ->
               eco4_fetchLeads(eco4Store, call.user, WholeRange.start,
                               WholeRange.end, call.selectedRepFilter,
                               call.storeFails, NoDraws(eco4Store))
          [] call.op = "eco4.fetchKPIMetrics" ->
               Op(eco4_fetchKPIMetrics, eco4Store)
          [] OTHER -> NoResult

\* C11: getDateRange('all_time').start is 1 January 2020, and every adapter
\* operation, Solar or ECO4, that receives a range starting in the year
\* 2020 applies no lower date bound: over any store, records dated before
\* 2020 included, its result is the result of the same operation without a
\* date filter.
C11_AllTimeIsUnbounded ==
    /\ AllTimeRange.start = [y |-> 2020, m |-> 0, d |-> 1, ms |-> 0]
    /\ (call.op # "none" /\ call.startDate.y = 2020)
           => result = WithoutDateFilter

(***************************************************************************)
(* Properties of the leaderboard.                                          *)
(***************************************************************************)
LeaderboardReturned ==
    call.op = "solar.fetchLeaderboardStats" /\ ~call.storeFails

\* the reps of the store among which the leaderboard chooses
RepsWhere(Named(_)) ==
    {solarStore[i].Field_Rep : i \in {j \in 1..Len(solarStore) :
                                         Named(solarStore[j].Field_Rep)}}

PaidOf(rep) ==
    Count(solarStore, LAMBDA l : l.Field_Rep = rep /\ l.Status = "Paid")

FirstLead(rep) ==
    CHOOSE i \in 1..Len(solarStore) :
        /\ solarStore[i].Field_Rep = rep
        /\ \A j \in 1..(i - 1) : solarStore[j].Field_Rep # rep

\* at most 10 entries, one per rep, by paid descending, the reps left out
\* having no more paid than any rep returned, and equal paid in TieOrder
LeaderboardOf(Named(_), TieOrder(_, _)) ==
    LET lb   == result.value
        reps == RepsWhere(Named)
    IN  /\ Len(lb) = (IF Cardinality(reps) < 10 THEN Cardinality(reps) ELSE 10)
        /\ \A i \in 1..Len(lb) :
               /\ lb[i].name \in reps
               /\ lb[i].paid = PaidOf(lb[i].name)
        /\ \A i, j \in 1..Len(lb) : i < j =>
               /\ lb[i].name # lb[j].name
               /\ lb[i].paid >= lb[j].paid
               /\ lb[i].paid = lb[j].paid => TieOrder(lb[i].name, lb[j].name)
        /\ \A rep \in reps :
               (\A i \in 1..Len(lb) : lb[i].name # rep)
                   => \A i \in 1..Len(lb) : PaidOf(rep) <= lb[i].paid

\* C12: for any store contents, Solar fetchLeaderboardStats returns at most
\* 10 entries, one per distinct non-null Field_Rep, ordered by paid
\* descending; every rep left out has paid <= the paid of every rep
\* returned; reps with equal paid keep the order of their first appearance
\* in the input.
C12_LeaderboardByFirstAppearance ==
    LeaderboardReturned
        => LeaderboardOf(LAMBDA rep : rep # NULL,
                         LAMBDA a, b : FirstLead(a) < FirstLead(b))

\* C12 as the code has it: one entry per distinct non-empty Field_Rep (a
\* null or empty name has none); reps with equal paid are in the order in
\* which Object.values lists them: names that are array indices first, in
\* ascending numeric order, then the other names in the order of their
\* first appearance in the input.
C12_LeaderboardByKeyOrder ==
    LeaderboardReturned
        => LeaderboardOf(Truthy,
              LAMBDA a, b :
                  IF ArrayIndex(a) >= 0 /\ ArrayIndex(b) >= 0
                    THEN ArrayIndex(a) < ArrayIndex(b)
                  ELSE IF ArrayIndex(a) >= 0 \/ ArrayIndex(b) >= 0
                    THEN ArrayIndex(a) >= 0
                  ELSE FirstLead(a) < FirstLead(b))

\* a leaderboard cut to 10 places with paid reps that had to move up
C12_Witness ==
    /\ LeaderboardReturned
    /\ Len(solarStore) > 10
    /\ Len(result.value) = 10
    /\ result.value[2].paid = 1
    /\ solarStore[1].Status # "Paid"

(***************************************************************************)
(* Properties of the six-month trend.                                      *)
(***************************************************************************)
TrendReturned ==
    /\ call.op \in {"solar.fetchSixMonthTrend", "eco4.fetchSixMonthTrend"}
    /\ ~call.storeFails

\* the rows of the store the trend was computed from, in common columns
TrendRows ==
    IF call.op = "solar.fetchSixMonthTrend"
      THEN [i \in 1..Len(solarStore) |->
              [created |-> solarStore[i].Created_At,
               survey  |-> solarStore[i].Survey_Booked_Date,
               install |-> solarStore[i].Install_Booked_Date,
               paid    |-> IF solarStore[i].Status = "Paid"
                           THEN solarStore[i].Paid_Date ELSE NoInstant]]
    ELSE [i \in 1..Len(eco4Store) |->
              [created |-> eco4Store[i].Lead_Created_Date,
               survey  |-> eco4Store[i].Survey_Date,
               install |-> eco4Store[i].Install_Date,
               paid    |-> IF Eq(eco4Store[i].Overall_Status, "PAID")
                           THEN eco4Store[i].Valour_Paid_Date ELSE NoInstant]]

\* the number of the calendar month of a date, and the window's six months
MonthNo(date) == date.y * 12 + date.m

WindowMonths == (MonthNo(now) - 5) .. MonthNo(now)

\* C13: for every current date (the 29th, 30th and 31st included) and any
\* store contents, fetchSixMonthTrend returns exactly 6 entries for 6
\* distinct consecutive calendar months in chronological order, the last
\* being the current month, with all-zero counts for the months in which
\* no record has a date.
C13_SixMonthsEndingNow ==
    TrendReturned =>
        /\ Len(result.value) = 6
        /\ \A i \in 1..6 :
             LET e == result.value[i]
             IN  /\ e.month = MonthShort[((MonthNo(now) - 6 + i) % 12) + 1]
                 /\ (\A j \in 1..Len(TrendRows) :
                        \A c \in {"created", "survey", "install", "paid"} :
                            TrendRows[j][c] # NoInstant
                                => monthKey(TrendRows[j][c]) # e.month)
                      => /\ e.leads = 0
                         /\ e.surveys = 0
                         /\ e.installs = 0
                         /\ e.paid = 0

\* C14: every record whose survey, install or paid date lies in the window
\* is counted in the bucket of that event's month, whether or not the
\* record was created in the window, and every record created in the
\* window is counted in the leads bucket of its creation month.
C14_EventsCountedByEventMonth ==
    TrendReturned =>
        /\ Len(result.value) = 6
        /\ \A i \in 1..6 :
             LET InBucket(c) ==
                     Count(TrendRows, LAMBDA r :
                         /\ r[c] # NoInstant
                         /\ MonthNo(r[c]) = MonthNo(now) - 6 + i)
                 e == result.value[i]
             IN  /\ e.leads >= InBucket("created")
                 /\ e.surveys >= InBucket("survey")
                 /\ e.installs >= InBucket("install")
                 /\ e.paid >= InBucket("paid")

\* C15: when a store query of an aggregate operation fails, the operation
\* does not throw and returns exactly its empty or zero default (the empty
\* list, or counts that are all zero), also when only one of several
\* parallel queries fails.
C15_FailureGivesDefault ==
    (call.op \in {"solar.fetchSixMonthTrend", "eco4.fetchSixMonthTrend"}
         /\ call.storeFails)
        => /\ ~result.threw
           /\ \/ result.value = <<>>
              \/ \A i \in 1..Len(result.value) :
                     /\ result.value[i].leads = 0
                     /\ result.value[i].surveys = 0
                     /\ result.value[i].installs = 0
                     /\ result.value[i].paid = 0

(***************************************************************************)
(* Properties of the paginated reads.                                      *)
(***************************************************************************)
PagingLoops == {"eco4.fetchAllPages", "solar.fetchLeadSourceStats"}

\* the page requests after which `from` has passed the safety cap
PageCeiling == (SafetyCap \div batchSize) + 1

\* C16: every paginated read loop (ECO4 fetchAllPages, Solar
\* fetchLeadSourceStats) stops after a bounded number of page requests even
\* when the store returns a full page on every request; on reaching the
\* ceiling it logs a warning and returns the rows accumulated so far.
C16_PagingIsBounded ==
    call.op \in PagingLoops =>
        /\ call.pages <= PageCeiling
        /\ call.pages = PageCeiling =>
               /\ ~call.running
               /\ (~call.storeFails /\ call.rows = PageCeiling * batchSize)
                      => result = Aggregate(call.rows, FALSE, TRUE)

(***************************************************************************)
(* Properties of the installer statistics.                                 *)
(***************************************************************************)
\* 0 <= rate <= 100
IsPercentage(rate) == rate.d > 0 /\ rate.n >= 0 /\ rate.n <= 100 * rate.d

\* C17: for every adapter and any store contents, each rate returned by
\* fetchInstallerPerformance (leadToSurveyRate, surveyToInstallRate,
\* installToPaidRate, leadToPaidRate) lies in [0, 100], also for installers
\* with installs but no surveys or with paid records but no installs.
C17_RatesArePercentages ==
    call.op \in {"solar.fetchInstallerPerformance",
                 "eco4.fetchInstallerPerformance"}
        => \A i \in 1..Len(result.value) :
               /\ IsPercentage(result.value[i].leadToSurveyRate)
               /\ IsPercentage(result.value[i].surveyToInstallRate)
               /\ IsPercentage(result.value[i].installToPaidRate)
               /\ IsPercentage(result.value[i].leadToPaidRate)

(***************************************************************************)
(* Properties of the lead source statistics.                               *)
(***************************************************************************)
SourcesReturned ==
    /\ call.op \in {"solar.fetchLeadSourceStats", "eco4.fetchLeadSourceStats"}
    /\ ~call.storeFails

\* the rows of the store the statistics are about, in common columns
SourceRows ==
    IF call.op = "solar.fetchLeadSourceStats"
      THEN [i \in 1..Len(solarStore) |->
              [label    |-> solarStore[i].Lead_Source,
               created  |-> InRange(solarStore[i].Created_At,
                                    call.startDate, call.endDate),
               isPaid   |-> solarStore[i].Status = "Paid",
               paidThen |-> solarStore[i].Status = "Paid"]]
    ELSE [i \in 1..Len(eco4Store) |->
              [label    |-> eco4Store[i].Lead_Generation,
               created  |-> eco4_dateFilter(eco4Store[i], "Lead_Created_Date",
                                call.startDate, call.endDate,
                                eco4_isAllTime(call.startDate)),
               isPaid   |-> Eq(eco4Store[i].Overall_Status, "PAID"),
               paidThen |-> /\ Eq(eco4Store[i].Overall_Status, "PAID")
                            /\ eco4_dateFilter(eco4Store[i], "Valour_Paid_Date",
                                   call.startDate, call.endDate,
                                   eco4_isAllTime(call.startDate))]]

\* the label of a row as the statistics name it
LabelOf(r) ==
    IF ~Truthy(r.label) THEN "Unknown"
    ELSE IF r.label = " Web " THEN "Web" ELSE r.label

SameRatio(a, b) == a.n * b.d = b.n * a.d

\* the entries are those of the labels counted, with count(source) the
\* records created in range under the label, percentage = 100 * count / N,
\* conversion = 100 * paid(source) / count(source) cut at 100 (0 when the
\* count is 0), and the counts summing to N
SourceStatsOf(Counted(_), PaidIn(_)) ==
    LET st == result.value
        N  == Count(SourceRows, LAMBDA r : r.created)
        CountIn(source) ==
            Count(SourceRows, LAMBDA r : r.created /\ LabelOf(r) = source)
        labels == {LabelOf(SourceRows[i]) :
                      i \in {j \in 1..Len(SourceRows) : Counted(SourceRows[j])}}
    IN  /\ {st[i].source : i \in 1..Len(st)} = labels
        /\ Len(st) = Cardinality(labels)
        /\ \A i \in 1..Len(st) :
               /\ st[i].count = CountIn(st[i].source)
               /\ SameRatio(st[i].percentage, PercentOf(st[i].count, N))
               /\ SameRatio(st[i].conversion,
                            MinHundred(PercentOf(PaidIn(st[i].source),
                                                 st[i].count)))
        /\ \A source \in labels :
               CountIn(source)
                   = Count(st, LAMBDA e : e.source = source) * CountIn(source)

AmountOf(val) ==
    IF val.t = "num" THEN val.n
    ELSE IF val.t = "null" THEN 0
    ELSE LET spelled == parseFloat(StripCurrency(val.s))
         IN  IF spelled.t = "num" THEN spelled.n ELSE 0

RECURSIVE AmountSum(_, _, _)
\* the sum of the amounts in the given column of rows[1 .. i]
AmountSum(rows, column, i) ==
    IF i = 0 THEN 0
    ELSE AmountSum(rows, column, i - 1) + AmountOf(rows[i][column])

\* C19: every adapter converts a monetary value that arrives as a number or
\* as a formatted string into a number before summing, and a missing, empty
\* or unparsable value contributes exactly 0: the revenue total is the
\* numeric sum of the amounts, never NaN and never a concatenated string.
C19_RevenueIsNumericSum ==
    /\ UnscopedKpiCall("solar.fetchKPIMetrics") =>
         LET paid == SelectSeq(solarStore, LAMBDA r :
                         CreatedInRange(r) /\ r.Status = "Paid")
         IN  result.kpis.revenue = Num(AmountSum(paid, "Lead_Revenue", Len(paid)))
    /\ UnscopedKpiCall("eco4.fetchKPIMetrics") =>
         LET paid == SelectSeq(eco4Store, LAMBDA r :
                         /\ Eq(r.Overall_Status, "PAID")
                         /\ eco4_dateFilter(r, "Valour_Paid_Date",
                                call.startDate, call.endDate,
                                eco4_isAllTime(call.startDate)))
         IN  result.kpis.revenue
                 = Num(AmountSum(paid, "Payment_Total_Net", Len(paid)))

(***************************************************************************)
(* Properties of the channel expenses.                                     *)
(***************************************************************************)
FinancialsReturned ==
    /\ call.op \in {"solar.fetchFinancialData", "eco4.fetchFinancialData"}
    /\ ~call.storeFails

\* the expenses of the given type booked inside the range of the call
BookedOfType(type) ==
    AmountOfType(SelectSeq(expenseStore, LAMBDA e :
        InRange(e.transaction_date, call.startDate, call.endDate)), type)

\* the leads the cost per lead of a channel is taken over
ChannelLeads(label) ==
    IF call.op = "solar.fetchFinancialData"
    THEN Count(solarStore, LAMBDA l :
             CreatedInRange(l) /\ l.Lead_Source = label)
    ELSE Count(eco4Store, LAMBDA r :
             eco4_dateFilter(r, "Lead_Created_Date", call.startDate,
                             call.endDate, eco4_isAllTime(call.startDate)))

\* C20: in fetchFinancialData fieldExpenses = sum(Field) + sum(Split) / 2
\* and onlineExpenses = sum(Online) + sum(Split) / 2, so that Split = 1000
\* with no Field and no Online expense gives 500 to each channel; Salaries,
\* Software and Other are attributed to neither channel.  The channel
\* expenses are read off the cost per lead of a channel that has leads.
C20_SplitHalvedPerChannel ==
    FinancialsReturned =>
        /\ ChannelLeads("Field Rep") > 0 =>
             SameRatio(result.value.fieldMetrics.cpl,
                       Ratio(2 * BookedOfType("Field") + BookedOfType("Split"),
                             2 * ChannelLeads("Field Rep")))
        /\ ChannelLeads("Online Ads") > 0 =>
             SameRatio(result.value.onlineMetrics.cpl,
                       Ratio(2 * BookedOfType("Online") + BookedOfType("Split"),
                             2 * ChannelLeads("Online Ads")))

(***************************************************************************)
(* Properties of the financial summary.                                    *)
(***************************************************************************)
\* the expenses booked inside the range of the call
BookedInRange ==
    SelectSeq(expenseStore, LAMBDA e :
        InRange(e.transaction_date, call.startDate, call.endDate))

\* the revenue of the paid records whose paid date is inside the range
PaidInRangeRevenue ==
    IF call.op = "solar.fetchFinancialData"
    THEN LET paid == SelectSeq(solarStore, LAMBDA l :
                         /\ l.Status = "Paid"
                         /\ InRange(l.Paid_Date, call.startDate, call.endDate))
         IN  AmountSum(paid, "Lead_Revenue", Len(paid))
    ELSE LET paid == SelectSeq(eco4Store, LAMBDA r :
                         /\ Eq(r.Overall_Status, "PAID")
                         /\ InRange(r.Valour_Paid_Date,
                                    call.startDate, call.endDate))
         IN  AmountSum(paid, "Payment_Total_Net", Len(paid))

\* C21: in the summary of fetchFinancialData, expenses is the sum of the
\* ledger amounts whose transaction date is in range, revenue is the sum of
\* revenue over the paid records whose paid date is in range, whatever their
\* creation date, netProfit = revenue - expenses, and margin = 0 whenever
\* revenue = 0.
C21_SummaryOverRange ==
    FinancialsReturned =>
        LET summary  == result.value.summary
            expenses == SumAmount(BookedInRange, Len(BookedInRange))
        IN  /\ summary.expenses = expenses
            /\ summary.revenue = Num(PaidInRangeRevenue)
            /\ summary.netProfit = Num(PaidInRangeRevenue - expenses)
            /\ PaidInRangeRevenue = 0 => summary.margin.n = 0

\* the leads of a channel the call counts, or those of them that have the
\* given event date
ChannelCount(label, event) ==
    IF call.storeFails THEN 0
    ELSE IF call.op = "solar.fetchFinancialData"
    THEN Count(solarStore, LAMBDA l :
             /\ CreatedInRange(l)
             /\ l.Lead_Source = label
             /\ l[event.solar] # NoInstant)
    ELSE Count(eco4Store, LAMBDA r :
             eco4_dateFilter(r, event.eco4, call.startDate, call.endDate,
                             eco4_isAllTime(call.startDate)))

LeadsEvent    == [solar |-> "Created_At", eco4 |-> "Lead_Created_Date"]

SurveysEvent  == [solar |-> "Survey_Booked_Date", eco4 |-> "Survey_Date"]

InstallsEvent == [solar |-> "Install_Booked_Date", eco4 |-> "Install_Date"]

\* the cost per lead, survey and install is 0 where the channel has none
ZeroWithoutCount(metrics, label) ==
    /\ ChannelCount(label, LeadsEvent) = 0 => metrics.cpl = Ratio(0, 1)
    /\ ChannelCount(label, SurveysEvent) = 0 => metrics.cps = Ratio(0, 1)
    /\ ChannelCount(label, InstallsEvent) = 0 => metrics.cpi = Ratio(0, 1)

\* C22: for every input, cpl, cps and cpi in fieldMetrics and onlineMetrics
\* of fetchFinancialData are exactly 0 whenever the corresponding lead,
\* survey or install count is 0, and no ratio the operation returns (cost
\* per metric, margin, percentage, conversion) has a zero divisor.
C22_NoDivisionByZero ==
    call.op \in {"solar.fetchFinancialData", "eco4.fetchFinancialData"} =>
        LET v == result.value
        IN  /\ ZeroWithoutCount(v.fieldMetrics, "Field Rep")
            /\ ZeroWithoutCount(v.onlineMetrics, "Online Ads")
            /\ \A m \in {v.fieldMetrics, v.onlineMetrics} :
                   m.cpl.d # 0 /\ m.cps.d # 0 /\ m.cpi.d # 0
            /\ v.summary.margin.d # 0
            /\ \A i \in 1..Len(v.expenseBreakdown) :
                   v.expenseBreakdown[i].percentage.d # 0
            /\ \A i \in 1..Len(v.sourceBreakdown) :
                   v.sourceBreakdown[i].conversion.d # 0

\* Solar financial data with expenses charged to the field channel, which
\* has a lead but no survey, and with no lead in the online channel
C22_Witness ==
    /\ call.op = "solar.fetchFinancialData"
    /\ ~call.storeFails
    /\ ChannelCount("Field Rep", LeadsEvent) > 0
    /\ ChannelCount("Field Rep", SurveysEvent) = 0
    /\ ChannelCount("Online Ads", LeadsEvent) = 0
    /\ result.value.fieldMetrics.cpl.n > 0
    /\ result.value.fieldMetrics.cps = Ratio(0, 1)
    /\ result.value.onlineMetrics.cpl = Ratio(0, 1)
    /\ result.value.summary.expenses > 0

(***************************************************************************)
(* Properties of the session and the profile lookup.                       *)
(***************************************************************************)
\* C23: whenever a session with an email is established and the profile
\* lookup finds no profile for that email, the app records an authorization
\* error and signs the session out; the dashboard is never shown for that
\* session and the lookup is not retried automatically.
C23_NoDashboardWithoutProfile ==
    /\ [](app.session # NULL /\ ~HasProfile(app.session) => Shown # "dashboard")
    /\ [][\A email \in Emails :
            /\ ~HasProfile(email)
            /\ lookups' = lookups (-) SetToBag({email})
            /\ lookups' # lookups
            /\ app'.authError # LoadError
            => /\ app'.authError = NotFoundError
               /\ BagCardinality(auth'.signOuts)
                      = BagCardinality(auth.signOuts) + 1]_vars

\* C28: after an authorization error caused by a missing profile and the
\* sign-out that follows, a later sign-in whose profile lookup succeeds ends
\* with the dashboard shown: once nothing is pending, a session that has a
\* profile and whose lookups did not throw shows the dashboard.
C28_ErrorDoesNotOutliveSession ==
    /\ auth.pending = {}
    /\ lookups = EmptyBag
    /\ auth.signOuts = EmptyBag
    /\ app.session # NULL
    /\ HasProfile(app.session)
    /\ app.authError # LoadError
    => Shown = "dashboard"

(***************************************************************************)
(* Properties of the views of the non-admin roles.                         *)
(***************************************************************************)
\* the view shows no lead, zero KPIs and no leaderboard
ShowsNothing(v) ==
    /\ v.leads = <<>>
    /\ v.kpiCounts = MountedRoleView(v.user, v.business).kpiCounts
    /\ v.leaderboard = <<>>

\* the step of RoleLoadSettles in which the awaited call throws
RoleLoadThrows ==
    \E l \in BagToSet(loads) :
        /\ Awaited(view, l, TRUE).threw
        /\ call'.storeFails
        /\ view' = [view EXCEPT !.logged = TRUE, !.loading = FALSE]
        /\ loads' = loads (-) SetToBag({l})

\* C24: when a load fails in a view that already displays data from an
\* earlier successful load (fetchLeads throws in FieldRepsView or in
\* AccountManagerView), the view ends in the empty/zero state: no leads and
\* zero KPIs, not the data of the earlier load and no mix of results set
\* before the failure with older ones.
C24_FailedLoadShowsNothing ==
    [][view.loaded /\ RoleLoadThrows => ShowsNothing(view')]_vars

\* C25: every role's view fetches through the adapter of the active
\* business line: whenever business = eco4, no view calls a Solar lead
\* operation, so a field rep or an account manager is shown no lead records
\* and an empty leaderboard for every date range.
C25_Eco4ShowsNoSolarLeads ==
    /\ [](view.business = "eco4" =>
              /\ view.leads = <<>>
              /\ view.leaderboard = <<>>)
    /\ [][view.business = "eco4" /\ call' # call =>
              call'.op \notin {"solar.leads", "solar.kpiCounts",
                               "solar.leaderboard"}]_vars

(***************************************************************************)
(* Properties of BusinessProvider.                                         *)
(***************************************************************************)
\* BusinessProvider is in the tree
ProviderMounted == provider # NoProvider

\* C26: the active business line is always one of {solar, eco4}; after any
\* sequence of setBusiness calls the value stored under 'active_business'
\* equals the current selection once effects have run; a provider started
\* with a stored valid value starts with that value, and a missing or
\* invalid stored value starts as 'solar'.
C26_BusinessPersisted ==
    /\ [](ProviderMounted => provider.business \in {"solar", "eco4"})
    /\ [](ProviderMounted /\ ~provider.effect => storage = provider.business)
    /\ [][~ProviderMounted /\ ProviderMounted' =>
              provider'.business =
                  CASE storage = "solar" -> "solar"
                    [] storage = "eco4" -> "eco4"
                    [] OTHER -> "solar"]_vars

\* a provider that started from the stored 'eco4' after a selection was
\* made and persisted, and one that started as 'solar' from an invalid value
C26_Witness ==
    /\ ProviderMounted
    /\ provider.business = "eco4"
    /\ storage = "eco4"
    /\ ~provider.effect
    /\ app.session # NULL
    /\ Shown = "dashboard"

(***************************************************************************)
(* Properties of the ECO4 range operations under custom ranges.            *)
(***************************************************************************)
\* the records of the store dated from the start to the end of the call's
\* range (every date of a record of CustomEco4Stores is its creation date)
DatedInCallRange ==
    SelectSeq(eco4Store, LAMBDA row :
        InRange(row.Lead_Created_Date, call.startDate, call.endDate))

\* the answer of the ECO4 range operation `op` to a call over `store`
eco4_answer(op, store, user, startDate, endDate, storeFails) ==
    CASE op = "eco4.fetchLeads" ->
           eco4_fetchLeads(store, user, startDate, endDate, NULL, storeFails,
                           NoDraws(store))
      [] op = "eco4.fetchKPIMetrics" ->
           eco4_fetchKPIMetrics(store, user, startDate, endDate, NULL,
                                storeFails)
      [] op = "eco4.fetchLeadSourceStats" ->
           eco4_fetchLeadSourceStats(store, startDate, endDate, storeFails)
      [] op = "eco4.fetchInstallerPerformance" ->
           eco4_fetchInstallerPerformance(store, startDate, endDate,
                                          storeFails)
      [] OTHER ->
           eco4_fetchFinancialData(expenseStore, store, startDate, endDate,
                                   storeFails)

\* the last call answered over the records dated in its range only
AnswerOverCallRange ==
    eco4_answer(call.op, DatedInCallRange, call.user, call.startDate,
                call.endDate, call.storeFails)

\* C27: ECO4 range operations drop the date filter only for the all_time
\* preset: for a custom range whose start date lies in calendar year 2020
\* (2020-03-01 to 2020-06-30), fetchLeads, fetchKPIMetrics,
\* fetchLeadSourceStats, fetchInstallerPerformance and fetchFinancialData
\* still exclude the lead records dated before the range's start or after
\* the range's end.
C27_CustomRangeStillFilters ==
    call.op # "none" => result = AnswerOverCallRange

(***************************************************************************)
(* Properties of the ids of the canonical records.                         *)
(***************************************************************************)
\* C30: ECO4 fetchLeads is deterministic: two calls with the same arguments
\* over the same frozen store return identical lists of canonical records,
\* including the id of every record, also for stored rows that carry no id.
C30_SameCallSameRecords ==
    [][call.op = "eco4.fetchLeads" /\ call' = call /\ eco4Store' = eco4Store
           => result' = result]_vars

(***************************************************************************)
(* Properties of the rows fetchAllPages returns.                           *)
(***************************************************************************)
\* C29: against a store of N matching rows that keeps a fixed row order and
\* returns at most 1000 rows per page, with N below the safety ceiling,
\* fetchAllPages returns exactly those N rows, each once and in store
\* order, for every N including 0 and exact multiples of 1000, requesting
\* pages at offsets 0, 1000, 2000, ... and stopping at the first page
\* shorter than 1000 rows.
C29_ExactlyTheMatchingRows ==
    (call.op = "eco4.fetchAllPages.rows" /\ ~call.storeFails) =>
        /\ \A i \in 1..Len(call.offsets) : call.offsets[i] = (i - 1) * 1000
        /\ call.running =>
               call.allData = SubSeq(eco4Store, 1, Len(call.offsets) * 1000)
        /\ ~call.running =>
               /\ result.value = eco4Store
               /\ Len(call.offsets) = (Len(eco4Store) \div 1000) + 1

\* two full pages and nothing more: the third request finds the empty page
C29_Witness ==
    /\ call.op = "eco4.fetchAllPages.rows"
    /\ ~call.running
    /\ ~call.storeFails
    /\ Len(eco4Store) = 2000
    /\ Len(result.value) = 2000
    /\ call.offsets = <<0, 1000, 2000>>

====
